---- MODULE Spec2Model ----
(***************************************************************************)
(* Model of the Hybrid_checkout cart service                               *)
(* (smart-checkout-optimized/main.py and services/json_db.py).             *)
(*                                                                         *)
(* Strings that the code inspects character by character (product ids)    *)
(* are sequences of one-character strings.  Money is held in hundredths of *)
(* the currency unit and the tax rate in hundredths (0.07 is 7), so that   *)
(* subtotal * tax_rate is computed exactly; binary floating point          *)
(* representation error is not modelled.                                   *)
(***************************************************************************)
EXTENDS Integers, Sequences, FiniteSets, TLC

\* ------------------------------------------------------------------ bounds
MaxStock == 2
MaxDebt == 1
MaxLines == 2
MaxPayments == 1
MaxBatch == 3
MaxCalls == 2
MaxGapPayments == 2
MaxTime == 5
MaxIsNewCalls == 4
MaxFrames == 1
MaxBoxes == 2
TicksPerSecond == 2
MaxSaleTicks == 3
MaxTwinLines == 6
MaxLoopDays == 2
MaxLoopPayments == 1
MaxLoopAdds == 2
FrameScaleX == 2
FrameScaleY == 1

\* ------------------------------------------------------- program constants
DefaultTaxRate == 7
\* debounce_time = 1.0 s, a tick of the clock being half a second
DebounceTime == 2
\* iou_threshold = 0.5 and conf_threshold = 0.5, in hundredths
IouThresholdPercent == 50
ConfThresholdPercent == 50
\* the price 10.0 given to a label the client does not know, in hundredths
DefaultPrice == 1000
\* cleanup_old_carts(max_age_hours=24)
MaxAgeHours == 24

\* ------------------------------------------------------------------ state
VARIABLES
    db,         \* the persisted store: products, sales, pending_payments, settings
    carts,      \* CartManager.carts: session id -> sequence of cart lines
    uuids,      \* number of payment ids uuid.uuid4() has handed out
    resp,       \* the response of the handler that ran last
    th,         \* per thread: the JsonDatabase call in progress (concurrent calls)
    acked,      \* per payment id: number of process_pending_payment calls that returned a Sale
    now,                \* time.time(), in ticks
    debounce_last,      \* DetectionDebouncer.last_detections: label -> time of the accepted call
    debounce_calls,     \* per thread: the is_new_detection call in progress
    debounce_log,       \* the is_new_detection calls that returned, in the order of their critical sections
    raw,                \* what the sub-models gave for the frames a detector was run on by itself
    last_detections,    \* YOLODetector.last_detections
    detected_products,  \* ScannerWidget.detected_products
    preview,            \* MainWindow.cart, the local preview cart: product id -> quantity
    outcome,            \* what the detecting process reported for its last operation
    current_detections, \* MinimalDetectionClient.current_detections
    clock,              \* datetime.now() of the cart service, in ticks
    sale_ids,           \* the "id" of each Sale of db.sales, in the same order
    created_at,         \* session id -> the "created_at" of its cart
    task,               \* per request: the handler coroutine in progress on the event loop
    ledger,             \* lines appended by add_item and lines taken out by remove and clear calls
    cleaned             \* the last cleanup_old_carts: the sessions it deleted, the handlers then at an await

\* the cart service
srvvars == <<db, carts, uuids, resp, th, acked>>

\* the detecting process
detvars == <<now, debounce_last, debounce_calls, debounce_log, raw, last_detections,
             detected_products, preview, outcome, current_detections>>

\* the cart service's clock, its event loop and what depends on them
timevars == <<clock, sale_ids, created_at, task, ledger, cleaned>>

vars == <<srvvars, detvars, timevars>>

\* ---------------------------------------------------------------- strings
LowerChar(c) ==
    CASE c = "A" -> "a"
      [] c = "B" -> "b"
      [] c = "C" -> "c"
      [] OTHER -> c

\* str.lower()
Lower(s) == [i \in 1..Len(s) |-> LowerChar(s[i])]

\* str.replace(a, b) for single characters
Replace(s, a, b) == [i \in 1..Len(s) |-> IF s[i] = a THEN b ELSE s[i]]

\* str.replace(a, '')
Strip(s, a) == SelectSeq(s, LAMBDA c : c # a)

\* sub in s
Contains(sub, s) ==
    \E i \in 0..(Len(s) - Len(sub)) : SubSeq(s, i + 1, i + Len(sub)) = sub

\* ---------------------------------------------------------------- catalog
PidA == <<"a", "b", "-", "c">>
PidB == <<"a", "b">>

\* the products list of products.json as the store is first seen
InitProducts ==
    << [id |-> PidA, price |-> 1400, stock |-> MaxStock],
       [id |-> PidB, price |-> 2000, stock |-> 1] >>

\* session_id as sent by a client: None (here "") selects the default session
SessionArgs == {"", "default", "s1"}

QueryIds == {PidA, PidB, <<"A", "B", "_", "C">>, <<"c">>, <<"x">>}
Quantities == {-1, 0, 1, 2, 3}
PaymentIds == 1..MaxPayments
BatchItems ==
    { [product_id |-> PidA, quantity |-> 1],
      [product_id |-> PidB, quantity |-> 2],
      [product_id |-> <<"x">>, quantity |-> 1],
      [product_id |-> PidA, quantity |-> 0],
      [product_id |-> PidA, quantity |-> -1] }

Max(a, b) == IF a >= b THEN a ELSE b

RECURSIVE SeqsUpTo(_, _)
SeqsUpTo(S, n) ==
    IF n = 0 THEN {<<>>}
    ELSE LET shorter == SeqsUpTo(S, n - 1)
         IN  shorter \cup {Append(s, x) : s \in {t \in shorter : Len(t) = n - 1}, x \in S}

\* the item lists a batch request is drawn from
Batches == SeqsUpTo(BatchItems, MaxBatch)

\* ------------------------------------------------------------ JsonDatabase
\* get_product: index in data.products of the first product with this id, 0 for None
GetProduct(data, product_id) ==
    LET hits == {i \in 1..Len(data.products) : data.products[i].id = product_id}
    IN  IF hits = {} THEN 0 ELSE CHOOSE i \in hits : \A j \in hits : i <= j

\* get_settings().get("tax_rate", 0.07)
TaxRate(data) ==
    IF "tax_rate" \in DOMAIN data.settings THEN data.settings.tax_rate ELSE DefaultTaxRate

\* update_stock: the dict after the call, the returned bool, and whether _write_db ran
UpdateStock(data, product_id, quantity, operation) ==
    LET i == GetProduct(data, product_id)
    IN  IF i = 0
        THEN [ok |-> FALSE, wrote |-> FALSE, data |-> data]
        ELSE IF operation = "add"
        THEN [ok |-> TRUE, wrote |-> TRUE,
              data |-> [data EXCEPT !.products[i].stock = @ + quantity]]
        ELSE IF operation = "subtract"
        THEN IF data.products[i].stock >= quantity
             THEN [ok |-> TRUE, wrote |-> TRUE,
                   data |-> [data EXCEPT !.products[i].stock = @ - quantity]]
             ELSE [ok |-> FALSE, wrote |-> FALSE, data |-> data]
        ELSE [ok |-> TRUE, wrote |-> TRUE, data |-> data]

\* add_pending_payment
AddPendingPayment(data, payment_id, payment_data) ==
    [data EXCEPT !.pending_payments =
        (payment_id :> payment_data) @@ data.pending_payments]

\* GetPendingPayment answering with a processed payment for an id it does not hold
GetPendingPaymentOrProcessed(data, payment_id) ==
    IF payment_id \in DOMAIN data.pending_payments
    THEN <<data.pending_payments[payment_id]>>
    ELSE <<[payment_id |-> payment_id, status |-> "completed"]>>

\* get_pending_payment: <<>> for None, <<payment>> otherwise
GetPendingPayment(data, payment_id) ==
    IF payment_id \in DOMAIN data.pending_payments
    THEN <<data.pending_payments[payment_id]>>
    ELSE <<>>

\* DecrementLine without the stock check: the line is always subtracted
DecrementLineUnchecked(products, item) ==
    LET hits == {i \in 1..Len(products) : products[i].id = item.product_id}
        i == IF hits = {} THEN 0 ELSE CHOOSE k \in hits : \A j \in hits : k <= j
    IN  IF i # 0
        THEN [products EXCEPT ![i].stock = @ - item.quantity]
        ELSE products

\* the stock decrement of one payment line (json_db.py lines 98-102)
DecrementLine(products, item) ==
    LET hits == {i \in 1..Len(products) : products[i].id = item.product_id}
        i == IF hits = {} THEN 0 ELSE CHOOSE k \in hits : \A j \in hits : k <= j
    IN  IF i # 0 /\ products[i].stock >= item.quantity
        THEN [products EXCEPT ![i].stock = @ - item.quantity]
        ELSE products

\* the loop over the payment's lines (json_db.py lines 96-102)
RECURSIVE DecrementStock(_, _)
DecrementStock(products, items) ==
    IF items = <<>> THEN products
    ELSE DecrementStock(DecrementLine(products, Head(items)), Tail(items))

\* MakeSale with the total taken before tax
MakeSaleNoTax(payment_id, pending_payment) ==
    [payment_id |-> payment_id,
     items |-> pending_payment.items,
     subtotal |-> pending_payment.subtotal,
     tax |-> pending_payment.tax,
     total |-> pending_payment.subtotal]

\* the Sale built from a pending payment (json_db.py lines 85-94)
MakeSale(payment_id, pending_payment) ==
    [payment_id |-> payment_id,
     items |-> pending_payment.items,
     subtotal |-> pending_payment.subtotal,
     tax |-> pending_payment.tax,
     total |-> pending_payment.total]

\* the guard of process_pending_payment (json_db.py lines 80-83)
IsPending(data, payment_id) ==
    /\ payment_id \in DOMAIN data.pending_payments
    /\ data.pending_payments[payment_id].status = "pending"

\* ProcessPendingPayment writing the status and the stock but returning the Sale unsaved
ProcessPendingPaymentUnsavedSale(data, payment_id) ==
    IF ~IsPending(data, payment_id)
    THEN [sale |-> <<>>, data |-> data]
    ELSE LET pending_payment == data.pending_payments[payment_id]
             sale == MakeSale(payment_id, pending_payment)
         IN  [sale |-> <<sale>>,
              data |-> [data EXCEPT
                  !.products = DecrementStock(data.products, pending_payment.items),
                  !.pending_payments[payment_id].status = "completed"]]

\* ProcessPendingPayment failing the whole payment when the stock does not cover a line
ProcessPendingPaymentStrict(data, payment_id) ==
    IF ~IsPending(data, payment_id)
    THEN [sale |-> <<>>, data |-> data]
    ELSE LET pending_payment == data.pending_payments[payment_id]
             sale == MakeSale(payment_id, pending_payment)
         IN  IF \E n \in 1..Len(pending_payment.items) :
                    LET i == GetProduct(data, pending_payment.items[n].product_id)
                    IN  i # 0 /\ data.products[i].stock < pending_payment.items[n].quantity
                THEN [sale |-> <<>>, data |-> data]
                ELSE [sale |-> <<sale>>,
                      data |-> [data EXCEPT
                          !.products = DecrementStock(data.products, pending_payment.items),
                          !.pending_payments[payment_id].status = "completed",
                          !.sales = Append(@, sale)]]

\* process_pending_payment: sale is <<>> for None, <<sale>> otherwise
ProcessPendingPayment(data, payment_id) ==
    IF ~IsPending(data, payment_id)
    THEN [sale |-> <<>>, data |-> data]
    ELSE LET pending_payment == data.pending_payments[payment_id]
             sale == MakeSale(payment_id, pending_payment)
         IN  [sale |-> <<sale>>,
              data |-> [data EXCEPT
                  !.products = DecrementStock(data.products, pending_payment.items),
                  !.pending_payments[payment_id].status = "completed",
                  !.sales = Append(@, sale)]]

\* set_theme
SetThemeData(data, theme) == [data EXCEPT !.settings.theme = theme]

\* ------------------------------------------------------------- CartManager
\* get_cart's key: a falsy session_id selects the default session
\* one cart shared by every session id
SessionKeyShared(session_id) == "default"

\* session_id defaults to 'default' when the request supplies none
SessionKey(session_id) == IF session_id = "" THEN "default" ELSE session_id

\* GetCart appending a copy of the cart's last line on every access
GetCartAppending(cs, session_id) ==
    IF SessionKey(session_id) \in DOMAIN cs
    THEN [cs EXCEPT ![SessionKey(session_id)] =
             IF @ = <<>> THEN @ ELSE Append(@, @[Len(@)])]
    ELSE (SessionKey(session_id) :> <<>>) @@ cs

\* get_cart creates the session's cart on first access
GetCart(cs, session_id) ==
    IF SessionKey(session_id) \in DOMAIN cs THEN cs
    ELSE (SessionKey(session_id) :> <<>>) @@ cs

Items(cs, session_id) == GetCart(cs, session_id)[SessionKey(session_id)]

\* AddItem leaving the cart alone when it already holds a line of the product
AddItemOnce(cs, product, session_id) ==
    IF \E n \in 1..Len(GetCart(cs, session_id)[SessionKey(session_id)]) :
           GetCart(cs, session_id)[SessionKey(session_id)][n].product_id = product.id
    THEN GetCart(cs, session_id)
    ELSE [GetCart(cs, session_id) EXCEPT ![SessionKey(session_id)] =
             Append(@, [product_id |-> product.id, price |-> product.price])]

\* add_item: one line, with the product's id and price as they are now
AddItem(cs, product, session_id) ==
    [GetCart(cs, session_id) EXCEPT ![SessionKey(session_id)] =
        Append(@, [product_id |-> product.id, price |-> product.price])]

\* for _ in range(quantity): cart_manager.add_item(product, session_id)
RECURSIVE AddItems(_, _, _, _)
AddItems(cs, product, session_id, quantity) ==
    IF quantity <= 0 THEN cs
    ELSE AddItems(AddItem(cs, product, session_id), product, session_id, quantity - 1)

\* RemoveItem taking the last line of this product instead of the first
RemoveItemLast(cs, product_id, session_id) ==
    LET k == SessionKey(session_id)
        c == GetCart(cs, session_id)
        hits == {i \in 1..Len(c[k]) : c[k][i].product_id = product_id}
    IN  IF hits = {} THEN [ok |-> FALSE, carts |-> c]
        ELSE LET i == CHOOSE h \in hits : \A j \in hits : h >= j
             IN  [ok |-> TRUE,
                  carts |-> [c EXCEPT ![k] = SubSeq(@, 1, i - 1) \o SubSeq(@, i + 1, Len(@))]]

\* remove_item: the cart without its first line of this product, and the returned bool
RemoveItem(cs, product_id, session_id) ==
    LET k == SessionKey(session_id)
        c == GetCart(cs, session_id)
        hits == {i \in 1..Len(c[k]) : c[k][i].product_id = product_id}
    IN  IF hits = {} THEN [ok |-> FALSE, carts |-> c]
        ELSE LET i == CHOOSE h \in hits : \A j \in hits : h <= j
             IN  [ok |-> TRUE,
                  carts |-> [c EXCEPT ![k] = SubSeq(@, 1, i - 1) \o SubSeq(@, i + 1, Len(@))]]

\* ClearCartItems leaving the lines where they are
ClearCartItemsKept(cs, session_id) == GetCart(cs, session_id)

\* clear_cart
ClearCartItems(cs, session_id) ==
    [GetCart(cs, session_id) EXCEPT ![SessionKey(session_id)] = <<>>]

\* Group opening a new entry for every line
RECURSIVE GroupEveryLine(_, _)
GroupEveryLine(lines, summary) ==
    IF lines = <<>> THEN summary
    ELSE GroupEveryLine(Tail(lines),
                        Append(summary, [product_id |-> Head(lines).product_id,
                                         price |-> Head(lines).price,
                                         quantity |-> 1]))

\* the grouping loop of get_summary over a list of lines
RECURSIVE Group(_, _)
Group(lines, summary) ==
    IF lines = <<>> THEN summary
    ELSE LET item == Head(lines)
             hits == {i \in 1..Len(summary) : summary[i].product_id = item.product_id}
         IN  IF hits # {}
             THEN LET i == CHOOSE h \in hits : TRUE
                  IN  Group(Tail(lines), [summary EXCEPT ![i].quantity = @ + 1])
             ELSE Group(Tail(lines),
                        Append(summary, [product_id |-> item.product_id,
                                         price |-> item.price,
                                         quantity |-> 1]))

\* get_summary
GetSummary(cs, session_id) ==
    LET lines == Items(cs, session_id)
        items == Group(lines, <<>>)
    IN  [items |-> items, total_items |-> Len(lines), unique_items |-> Len(items)]

\* ------------------------------------------------------------ the resolver
\* the dash/underscore and case variations, in the order they are tried
Variations(product_id) ==
    << Replace(product_id, "_", "-"),
       Replace(product_id, "-", "_"),
       Lower(product_id),
       Replace(Lower(product_id), "_", "-"),
       Replace(Lower(product_id), "-", "_") >>

Normalize(s) == Lower(Strip(Strip(s, "-"), "_"))

\* the partial match: the first product whose id contains the query or equals it once
\* dashes and underscores are dropped
PartialMatch(data, product_id) ==
    LET hits == {i \in 1..Len(data.products) :
                    \/ Contains(Lower(product_id), Lower(data.products[i].id))
                    \/ Normalize(data.products[i].id) = Normalize(product_id)}
    IN  IF hits = {} THEN 0 ELSE CHOOSE i \in hits : \A j \in hits : i <= j

\* get_product_flexible trying the partial match before the variations
GetProductFlexiblePartialFirst(data, product_id) ==
    IF GetProduct(data, product_id) # 0 THEN GetProduct(data, product_id)
    ELSE IF PartialMatch(data, product_id) # 0 THEN PartialMatch(data, product_id)
    ELSE LET v == Variations(product_id)
             found == {n \in 1..Len(v) : GetProduct(data, v[n]) # 0}
         IN  IF found # {}
             THEN GetProduct(data, v[CHOOSE n \in found : \A m \in found : n <= m])
             ELSE 0

\* get_product_flexible: index of the resolved product, 0 for None
GetProductFlexible(data, product_id) ==
    IF GetProduct(data, product_id) # 0 THEN GetProduct(data, product_id)
    ELSE LET v == Variations(product_id)
             found == {n \in 1..Len(v) : GetProduct(data, v[n]) # 0}
         IN  IF found # {}
             THEN GetProduct(data, v[CHOOSE n \in found : \A m \in found : n <= m])
             ELSE PartialMatch(data, product_id)

\* ---------------------------------------------------------------- handlers
Response(op, status, error) ==
    [op |-> op, status |-> status, error |-> error,
     success |-> status = 200, items_added |-> 0, nerrors |-> 0]

\* AddToCartResult adding what the stock covers when the quantity exceeds it
AddToCartResultPartial(data, cs, product_id, session_id, quantity) ==
    LET i == GetProductFlexible(data, product_id)
    IN  IF i = 0
        THEN [carts |-> cs, resp |-> Response("add_to_cart", 404, "not found")]
        ELSE IF data.products[i].stock < quantity
        THEN [carts |-> AddItems(cs, data.products[i], session_id, data.products[i].stock),
              resp |-> Response("add_to_cart", 400, "insufficient stock")]
        ELSE LET added == AddItems(cs, data.products[i], session_id, quantity)
             IN  [carts |-> GetCart(added, session_id),
                  resp |-> [Response("add_to_cart", 200, "") EXCEPT
                               !.items_added = IF quantity > 0 THEN quantity ELSE 0]]

\* POST /api/add-to-cart: the carts after the call and the response
AddToCartResult(data, cs, product_id, session_id, quantity) ==
    LET i == GetProductFlexible(data, product_id)
    IN  IF i = 0
        THEN [carts |-> cs, resp |-> Response("add_to_cart", 404, "not found")]
        ELSE IF data.products[i].stock < quantity
        THEN [carts |-> cs, resp |-> Response("add_to_cart", 400, "insufficient stock")]
        ELSE LET added == AddItems(cs, data.products[i], session_id, quantity)
             IN  [carts |-> GetCart(added, session_id),
                  resp |-> [Response("add_to_cart", 200, "") EXCEPT
                               !.items_added = IF quantity > 0 THEN quantity ELSE 0]]

\* BatchStep that stops taking items once one was rejected
BatchStepAllOrNothing(data, acc, item) ==
    LET i == GetProductFlexible(data, item.product_id)
    IN  IF i = 0 \/ acc.nerrors > 0
        THEN [acc EXCEPT !.nerrors = @ + 1]
        ELSE IF data.products[i].stock < item.quantity
        THEN [acc EXCEPT !.nerrors = @ + 1]
        ELSE [acc EXCEPT
                 !.carts = AddItems(acc.carts, data.products[i], acc.session_id, item.quantity),
                 !.nresults = @ + (IF item.quantity > 0 THEN item.quantity ELSE 0)]

\* one pass of the loop of add_batch_to_cart (main.py lines 284-299)
BatchStep(data, acc, item) ==
    LET i == GetProductFlexible(data, item.product_id)
    IN  IF i = 0
        THEN [acc EXCEPT !.nerrors = @ + 1]
        ELSE IF data.products[i].stock < item.quantity
        THEN [acc EXCEPT !.nerrors = @ + 1]
        ELSE [acc EXCEPT
                 !.carts = AddItems(acc.carts, data.products[i], acc.session_id, item.quantity),
                 !.nresults = @ + (IF item.quantity > 0 THEN item.quantity ELSE 0)]

RECURSIVE BatchLoop(_, _, _)
BatchLoop(data, acc, items) ==
    IF items = <<>> THEN acc
    ELSE BatchLoop(data, BatchStep(data, acc, Head(items)), Tail(items))

\* BatchSuccess that holds for every batch
BatchSuccessAlways(nresults) == nresults >= 0

\* the success flag of the batch response (main.py line 312)
BatchSuccess(nresults) == nresults > 0

\* POST /api/add-batch-to-cart
AddBatchResult(data, cs, items, session_id) ==
    LET acc == BatchLoop(data,
                         [carts |-> cs, session_id |-> session_id,
                          nresults |-> 0, nerrors |-> 0],
                         items)
    IN  [carts |-> GetCart(acc.carts, session_id),
         resp |-> [op |-> "add_batch", status |-> 200, error |-> "",
                   success |-> BatchSuccess(acc.nresults),
                   items_added |-> acc.nresults, nerrors |-> acc.nerrors]]

\* sum(item["price"] * item["quantity"] for item in summary["items"])
RECURSIVE Subtotal(_)
Subtotal(items) ==
    IF items = <<>> THEN 0
    ELSE Head(items).price * Head(items).quantity + Subtotal(Tail(items))

\* Tax rounded down to a whole currency unit
TaxRounded(subtotal, tax_rate) == ((subtotal * tax_rate) \div 10000) * 100

\* tax = subtotal * tax_rate, the rate in hundredths
Tax(subtotal, tax_rate) == (subtotal * tax_rate) \div 100

\* the pending payment checkout_cart builds from a summary (main.py lines 386-426)
MakePayment(payment_id, summary, tax_rate, session_id) ==
    LET subtotal == Subtotal(summary.items)
        tax == Tax(subtotal, tax_rate)
    IN  [payment_id |-> payment_id,
         items |-> [n \in 1..Len(summary.items) |->
                      [product_id |-> summary.items[n].product_id,
                       quantity |-> summary.items[n].quantity,
                       price |-> summary.items[n].price,
                       total |-> summary.items[n].price * summary.items[n].quantity]],
         subtotal |-> subtotal,
         tax |-> tax,
         total |-> subtotal + tax,
         status |-> "pending",
         session_id |-> SessionKey(session_id)]

\* CheckoutResult without the empty-cart check (main.py lines 372-376)
CheckoutResultNoEmptyCheck(data, cs, session_id, payment_id) ==
    LET summary == GetSummary(cs, session_id)
    IN  [db |-> AddPendingPayment(data, payment_id,
                    MakePayment(payment_id, summary, TaxRate(data), session_id)),
         carts |-> ClearCartItems(cs, session_id), created |-> TRUE,
         resp |-> Response("checkout", 200, "")]

\* CheckoutResult refusing a cart that holds more units of a product than its stock
CheckoutResultStockChecked(data, cs, session_id, payment_id) ==
    LET summary == GetSummary(cs, session_id)
    IN  IF summary.total_items = 0
        THEN [db |-> data, carts |-> GetCart(cs, session_id), created |-> FALSE,
              resp |-> Response("checkout", 400, "cart is empty")]
        ELSE IF \E n \in 1..Len(summary.items) :
                    LET i == GetProduct(data, summary.items[n].product_id)
                    IN  i # 0 /\ data.products[i].stock < summary.items[n].quantity
        THEN [db |-> data, carts |-> GetCart(cs, session_id), created |-> FALSE,
              resp |-> Response("checkout", 400, "insufficient stock")]
        ELSE [db |-> AddPendingPayment(data, payment_id,
                        MakePayment(payment_id, summary, TaxRate(data), session_id)),
              carts |-> ClearCartItems(cs, session_id), created |-> TRUE,
              resp |-> Response("checkout", 200, "")]

\* POST /api/checkout-cart
CheckoutResult(data, cs, session_id, payment_id) ==
    LET summary == GetSummary(cs, session_id)
    IN  IF summary.total_items = 0
        THEN [db |-> data, carts |-> GetCart(cs, session_id), created |-> FALSE,
              resp |-> Response("checkout", 400, "cart is empty")]
        ELSE [db |-> AddPendingPayment(data, payment_id,
                        MakePayment(payment_id, summary, TaxRate(data), session_id)),
              carts |-> ClearCartItems(cs, session_id), created |-> TRUE,
              resp |-> Response("checkout", 200, "")]

\* ConfirmResult without the handler's own status check (main.py lines 466-467)
ConfirmResultNoStatusCheck(data, payment_id) ==
    LET pending_payment == GetPendingPayment(data, payment_id)
    IN  IF pending_payment = <<>>
        THEN [db |-> data, resp |-> Response("confirm", 404, "not found")]
        ELSE LET r == ProcessPendingPayment(data, payment_id)
             IN  IF r.sale # <<>>
                 THEN [db |-> r.data, resp |-> Response("confirm", 200, "")]
                 ELSE [db |-> r.data, resp |-> Response("confirm", 400, "failed")]

\* POST /api/confirm-payment/{payment_id}
ConfirmResult(data, payment_id) ==
    LET pending_payment == GetPendingPayment(data, payment_id)
    IN  IF pending_payment = <<>>
        THEN [db |-> data, resp |-> Response("confirm", 404, "not found")]
        ELSE IF pending_payment[1].status # "pending"
        THEN [db |-> data, resp |-> Response("confirm", 400, "already processed")]
        ELSE LET r == ProcessPendingPayment(data, payment_id)
             IN  IF r.sale # <<>>
                 THEN [db |-> r.data, resp |-> Response("confirm", 200, "")]
                 ELSE [db |-> r.data, resp |-> Response("confirm", 400, "failed")]

\* POST /api/restock/{product_id}
RestockResult(data, product_id, quantity) ==
    LET r == UpdateStock(data, product_id, quantity, "add")
    IN  IF r.ok
        THEN [db |-> r.data, resp |-> Response("restock", 200, "")]
        ELSE [db |-> r.data, resp |-> Response("restock", 400, "failed to restock")]

\* ------------------------------------------------- the handlers as actions
StockInRange(data) ==
    \A i \in 1..Len(data.products) :
        data.products[i].stock \in (0 - MaxDebt)..MaxStock

CartsInRange(cs) == \A k \in DOMAIN cs : Len(cs[k]) <= MaxLines

AddToCart(product_id, session_id, quantity) ==
    LET r == AddToCartResult(db, carts, product_id, session_id, quantity)
    IN  /\ CartsInRange(r.carts)
        /\ carts' = r.carts
        /\ resp' = r.resp
        /\ UNCHANGED <<detvars, timevars, db, uuids, th, acked>>

AddBatchToCart(items, session_id) ==
    LET r == AddBatchResult(db, carts, items, session_id)
    IN  /\ CartsInRange(r.carts)
        /\ carts' = r.carts
        /\ resp' = r.resp
        /\ UNCHANGED <<detvars, timevars, db, uuids, th, acked>>

GetCartSummary(session_id) ==
    /\ carts' = GetCart(carts, session_id)
    /\ resp' = Response("get_cart", 200, "")
    /\ UNCHANGED <<detvars, timevars, db, uuids, th, acked>>

ClearCart(session_id) ==
    /\ carts' = ClearCartItems(carts, session_id)
    /\ resp' = Response("clear_cart", 200, "")
    /\ UNCHANGED <<detvars, timevars, db, uuids, th, acked>>

RemoveFromCart(product_id, session_id) ==
    LET r == RemoveItem(carts, product_id, session_id)
    IN  /\ carts' = r.carts
        /\ resp' = IF r.ok THEN Response("remove", 200, "")
                   ELSE Response("remove", 404, "not in cart")
        /\ UNCHANGED <<detvars, timevars, db, uuids, th, acked>>

\* checkout_cart while fewer than limit payment ids have been handed out
CheckoutCartUpTo(session_id, limit) ==
    LET r == CheckoutResult(db, carts, session_id, uuids + 1)
    IN  /\ r.created => uuids < limit
        /\ db' = r.db
        /\ carts' = r.carts
        /\ uuids' = IF r.created THEN uuids + 1 ELSE uuids
        /\ resp' = r.resp
        /\ UNCHANGED <<detvars, timevars, th, acked>>

CheckoutCart(session_id) == CheckoutCartUpTo(session_id, MaxPayments)

ConfirmPayment(payment_id) ==
    LET r == ConfirmResult(db, payment_id)
    IN  /\ db' = r.db
        /\ resp' = r.resp
        /\ UNCHANGED <<detvars, timevars, carts, uuids, th, acked>>

RestockProduct(product_id, quantity) ==
    LET r == RestockResult(db, product_id, quantity)
    IN  /\ StockInRange(r.db)
        /\ db' = r.db
        /\ resp' = r.resp
        /\ UNCHANGED <<detvars, timevars, carts, uuids, th, acked>>

\* db.update_stock(product_id, quantity, "subtract"), which no endpoint wraps
SubtractStock(product_id, quantity) ==
    LET r == UpdateStock(db, product_id, quantity, "subtract")
    IN  /\ StockInRange(r.data)
        /\ db' = r.data
        /\ resp' = IF r.ok THEN Response("subtract", 200, "")
                   ELSE Response("subtract", 400, "failed")
        /\ UNCHANGED <<detvars, timevars, carts, uuids, th, acked>>

\* ------------------------------------------------------------------- Init
Threads == {"t1", "t2"}

NoCall ==
    [op |-> "none", product_id |-> <<>>, quantity |-> 0, operation |-> "",
     payment_id |-> 0, theme |-> ""]

\* a thread with no JsonDatabase call in progress, after n calls
Idle(n) == [pc |-> "idle", n |-> n, call |-> NoCall, data |-> <<>>]

\* nothing acknowledged yet: no Sale written, no stock change, no payment inserted
NoAcks ==
    [sales |-> [p \in PaymentIds |-> 0],
     stock |-> [i \in 1..Len(InitProducts) |-> InitProducts[i].stock],
     paid |-> {},
     theme |-> "light"]

InitDb(settings) ==
    [products |-> InitProducts, sales |-> <<>>, pending_payments |-> <<>>,
     settings |-> settings]

NoOutcome == [op |-> "none", ok |-> TRUE, report |-> "", requests |-> 0, failures |-> 0]

\* the detecting process as constructed: nothing detected, nothing sent
DetectionIdle ==
    /\ now = 0
    /\ debounce_last = <<>>
    /\ debounce_calls = [t \in Threads |-> [pc |-> "idle"]]
    /\ debounce_log = <<>>
    /\ raw = <<>>
    /\ last_detections = <<>>
    /\ detected_products = <<>>
    /\ preview = <<>>
    /\ outcome = NoOutcome
    /\ current_detections = <<>>

Handlers == {"h1", "h2"}

\* no handler coroutine in progress
NoTask ==
    [pc |-> "idle", op |-> "none", session_id |-> "", product |-> 0, quantity |-> 0,
     remaining |-> 0, live |-> TRUE, summary |-> <<>>]

\* cleanup_old_carts has not run
NoCleanup == [sessions |-> {}, awaiting |-> {}]

\* the cart service's clock at its start, no cart created, no request in progress
TimeIdle ==
    /\ clock = 0
    /\ sale_ids = <<>>
    /\ created_at = <<>>
    /\ task = [h \in Handlers |-> NoTask]
    /\ ledger = [added |-> 0, removed |-> 0]
    /\ cleaned = NoCleanup

\* the cart service as constructed
ServiceIdle ==
    /\ db = InitDb([theme |-> "light"])
    /\ carts = <<>>
    /\ uuids = 0
    /\ resp = Response("none", 200, "")
    /\ th = [t \in Threads |-> Idle(0)]
    /\ acked = NoAcks

Init ==
    /\ db \in {InitDb([theme |-> "light"]), InitDb([theme |-> "light", tax_rate |-> 10])}
    /\ carts = <<>>
    /\ uuids = 0
    /\ resp = Response("none", 200, "")
    /\ th = [t \in Threads |-> Idle(0)]
    /\ acked = NoAcks
    /\ DetectionIdle
    /\ TimeIdle

Next ==
    \/ \E q \in {PidA, PidB, <<"x">>}, s \in {"", "default"}, n \in {-1, 1, 2} : AddToCart(q, s, n)
    \/ \E s \in {"", "default"} : CheckoutCart(s)
    \/ \E p \in 1..(MaxPayments + 1) : ConfirmPayment(p)
    \/ \E q \in {PidA, PidB, <<"x">>}, n \in {-1, 1} : RestockProduct(q, n)
    \/ \E q \in {PidA, PidB}, n \in {-1, 1} : SubtractStock(q, n)

Spec == Init /\ [][Next]_vars

\* ------------------------------------------------ the cart ledger on its own
InitLedger ==
    /\ db = InitDb([theme |-> "light"])
    /\ carts = <<>>
    /\ uuids = 0
    /\ resp = Response("none", 200, "")
    /\ th = [t \in Threads |-> Idle(0)]
    /\ acked = NoAcks
    /\ DetectionIdle
    /\ TimeIdle

NextLedger ==
    \/ \E q \in {PidA, PidB, <<"x">>}, s \in {"", "s1"}, n \in {0, 1, 2, 3} :
          AddToCart(q, s, n)
    \/ \E items \in Batches : AddBatchToCart(items, "s1")
    \/ \E s \in SessionArgs : GetCartSummary(s)
    \/ \E s \in SessionArgs : ClearCart(s)
    \/ \E q \in {PidA, PidB, <<"x">>}, s \in {"", "s1"} : RemoveFromCart(q, s)

SpecLedger == InitLedger /\ [][NextLedger]_vars

\* ----------------------------------- one cart while the catalog's prices change
\* the prices the first product is given in products.json
Prices == {InitProducts[1].price, InitProducts[1].price + 100}

\* products.json rewritten with a new price between two requests: every JsonDatabase
\* call reads the file afresh, so the next call sees the new price
EditPrice(product_id, price) ==
    LET i == GetProduct(db, product_id)
    IN  /\ i # 0
        /\ db.products[i].price # price
        /\ db' = [db EXCEPT !.products[i].price = price]
        /\ UNCHANGED <<detvars, timevars, carts, uuids, resp, th, acked>>

\* the item lists of the batch requests sent to the one cart
SmallBatches == SeqsUpTo(BatchItems, 2)

InitCart ==
    /\ db = InitDb([theme |-> "light"])
    /\ carts = <<>>
    /\ uuids = 0
    /\ resp = Response("none", 200, "")
    /\ th = [t \in Threads |-> Idle(0)]
    /\ acked = NoAcks
    /\ DetectionIdle
    /\ TimeIdle

NextCart ==
    \/ \E q \in {PidA, PidB}, n \in {1, 2} : AddToCart(q, "", n)
    \/ \E items \in SmallBatches : AddBatchToCart(items, "")
    \/ \E q \in {PidA, PidB, <<"x">>} : RemoveFromCart(q, "")
    \/ ClearCart("")
    \/ GetCartSummary("")
    \/ CheckoutCart("")
    \/ \E price \in Prices : EditPrice(PidA, price)

SpecCart == InitCart /\ [][NextCart]_vars

\* --------------------------------- two sessions and the last unit of a product
InitGap ==
    /\ db = InitDb([theme |-> "light"])
    /\ carts = <<>>
    /\ uuids = 0
    /\ resp = Response("none", 200, "")
    /\ th = [t \in Threads |-> Idle(0)]
    /\ acked = NoAcks
    /\ DetectionIdle
    /\ TimeIdle

NextGap ==
    \/ \E q \in {PidA, PidB}, s \in {"s1", "s2"} : AddToCart(q, s, 1)
    \/ \E s \in {"s1", "s2"} : CheckoutCartUpTo(s, MaxGapPayments)
    \/ \E p \in 1..MaxGapPayments : ConfirmPayment(p)

SpecGap == InitGap /\ [][NextGap]_vars

\* ------------------------------------------------------- DetectionDebouncer
Labels == {"cola", "chips"}

\* is_new_detection accepting every call
IsNewDetectionAlways(last, class_name, current_time) ==
    [result |-> TRUE, last |-> (class_name :> current_time) @@ last]

\* is_new_detection suppressing only a call whose time is not before the stored one
IsNewDetectionForward(last, class_name, current_time) ==
    IF /\ class_name \in DOMAIN last
       /\ current_time >= last[class_name]
       /\ current_time - last[class_name] < DebounceTime
    THEN [result |-> FALSE, last |-> last]
    ELSE [result |-> TRUE, last |-> (class_name :> current_time) @@ last]

\* is_new_detection storing the time of a suppressed call too
IsNewDetectionResetting(last, class_name, current_time) ==
    IF class_name \in DOMAIN last /\ current_time - last[class_name] < DebounceTime
    THEN [result |-> FALSE, last |-> (class_name :> current_time) @@ last]
    ELSE [result |-> TRUE, last |-> (class_name :> current_time) @@ last]

\* the critical section of is_new_detection (yolo_detector.py lines 287-294): the
\* returned bool and last_detections afterwards
IsNewDetection(last, class_name, current_time) ==
    IF class_name \in DOMAIN last /\ current_time - last[class_name] < DebounceTime
    THEN [result |-> FALSE, last |-> last]
    ELSE [result |-> TRUE, last |-> (class_name :> current_time) @@ last]

\* time passes
Tick ==
    /\ now < MaxTime
    /\ now' = now + 1
    /\ UNCHANGED <<srvvars, timevars, debounce_last, debounce_calls, debounce_log, raw,
                   last_detections, detected_products, preview, outcome,
                   current_detections>>

InFlight == {t \in Threads : debounce_calls[t].pc # "idle"}

\* current_time = time.time(), taken before the lock (yolo_detector.py line 285)
StartIsNewDetection(t, class_name) ==
    /\ debounce_calls[t].pc = "idle"
    /\ Len(debounce_log) + Cardinality(InFlight) < MaxIsNewCalls
    /\ debounce_calls' = [debounce_calls EXCEPT ![t] =
           [pc |-> "timed", class_name |-> class_name, current_time |-> now]]
    /\ UNCHANGED <<srvvars, timevars, now, debounce_last, debounce_log, raw, last_detections,
                   detected_products, preview, outcome, current_detections>>

\* with self.lock: the check, the store and the return
FinishIsNewDetection(t) ==
    /\ debounce_calls[t].pc = "timed"
    /\ LET c == debounce_calls[t]
           r == IsNewDetection(debounce_last, c.class_name, c.current_time)
       IN  /\ debounce_last' = r.last
           /\ debounce_log' = Append(debounce_log,
                  [class_name |-> c.class_name, current_time |-> c.current_time,
                   result |-> r.result])
    /\ debounce_calls' = [debounce_calls EXCEPT ![t] = [pc |-> "idle"]]
    /\ UNCHANGED <<srvvars, timevars, now, raw, last_detections, detected_products, preview,
                   outcome, current_detections>>

\* clear(): all history is dropped, and the record of the calls starts again
ClearDebouncer ==
    /\ debounce_last # <<>>
    /\ debounce_last' = <<>>
    /\ debounce_log' = <<>>
    /\ UNCHANGED <<srvvars, timevars, now, debounce_calls, raw, last_detections,
                   detected_products, preview, outcome, current_detections>>

InitDebounce ==
    /\ ServiceIdle
    /\ DetectionIdle
    /\ TimeIdle

NextDebounce ==
    \/ Tick
    \/ \E t \in Threads, l \in Labels : StartIsNewDetection(t, l)
    \/ \E t \in Threads : FinishIsNewDetection(t)
    \/ ClearDebouncer

SpecDebounce == InitDebounce /\ [][NextDebounce]_vars

\* --------------------------------------------------------------- detection
\* class names as the models give them, and the products they stand for
LabelA == <<"A", "b", "C">>
LabelB == <<"A", "b">>

\* a class id that model.names does not hold
NoName == <<>>

\* the sub-models, in the order of self.models
ModelOrder == <<"chips", "drinks">>

\* boxes in the coordinates of the model's input: BoxB overlaps BoxA and BoxC above
\* the threshold, BoxA and BoxC overlap below it, BoxHalf and BoxA exactly at it
BoxA == <<0, 0, 4, 2>>
BoxB == <<1, 0, 5, 2>>
BoxC == <<2, 0, 6, 2>>
BoxHalf == <<0, 0, 2, 2>>
BoxZero == <<0, 0, 0, 0>>

\* what a model can report for one box
BoxResults ==
    {[class_name |-> l, confidence |-> c, bbox |-> b] :
        l \in {LabelA, LabelB}, c \in {70, 90}, b \in {BoxA, BoxB, BoxC}}
    \cup {[class_name |-> LabelA, confidence |-> 90, bbox |-> BoxHalf],
          [class_name |-> LabelA, confidence |-> 90, bbox |-> BoxZero],
          [class_name |-> LabelA, confidence |-> 40, bbox |-> BoxA],
          [class_name |-> NoName, confidence |-> 90, bbox |-> BoxA],
          [class_name |-> NoName, confidence |-> 40, bbox |-> BoxA]}

\* what invoking one model on a frame can give: it raises, or it lists boxes
ModelResults(B, n) ==
    {[raises |-> TRUE, boxes |-> <<>>]}
    \cup {[raises |-> FALSE, boxes |-> bs] : bs \in SeqsUpTo(B, n)}

\* what the models give for one frame
FrameResults ==
    {("chips" :> c) @@ ("drinks" :> d) :
        c \in ModelResults(BoxResults, MaxBoxes), d \in ModelResults(BoxResults, 1)}

\* x1 = int(x1 * scale_x), ...: back to the coordinates of the frame
ScaleBox(bbox) ==
    <<bbox[1] * FrameScaleX, bbox[2] * FrameScaleY,
      bbox[3] * FrameScaleX, bbox[4] * FrameScaleY>>

Min(a, b) == IF a <= b THEN a ELSE b

\* _calculate_iou: intersection / union as a fraction, 0.0 as 0 / 1
CalculateIou(box1, box2) ==
    LET x1_i == Max(box1[1], box2[1])
        y1_i == Max(box1[2], box2[2])
        x2_i == Min(box1[3], box2[3])
        y2_i == Min(box1[4], box2[4])
        intersection == (x2_i - x1_i) * (y2_i - y1_i)
        area1 == (box1[3] - box1[1]) * (box1[4] - box1[2])
        area2 == (box2[3] - box2[1]) * (box2[4] - box2[2])
        union == area1 + area2 - intersection
    IN  IF x2_i < x1_i \/ y2_i < y1_i THEN [num |-> 0, den |-> 1]
        ELSE IF union > 0 THEN [num |-> intersection, den |-> union]
        ELSE [num |-> 0, den |-> 1]

\* self._calculate_iou(box1, box2) > iou_threshold
IouAbove(box1, box2) ==
    LET iou == CalculateIou(box1, box2)
    IN  iou.num * 100 > IouThresholdPercent * iou.den

\* sorted(...) taking the lowest confidence first
RECURSIVE InsertByConfidenceAscending(_, _, _)
InsertByConfidenceAscending(dets, order, i) ==
    IF order = <<>> THEN <<i>>
    ELSE IF dets[Head(order)].confidence <= dets[i].confidence
    THEN <<Head(order)>> \o InsertByConfidenceAscending(dets, Tail(order), i)
    ELSE <<i>> \o order

\* the place of detection i in the order sorted so far: after every detection whose
\* confidence is at least its own (sorted is stable)
RECURSIVE InsertByConfidence(_, _, _)
InsertByConfidence(dets, order, i) ==
    IF order = <<>> THEN <<i>>
    ELSE IF dets[Head(order)].confidence >= dets[i].confidence
    THEN <<Head(order)>> \o InsertByConfidence(dets, Tail(order), i)
    ELSE <<i>> \o order

\* sorted(detections, key=confidence, reverse=True), as the indexes of the detections
RECURSIVE SortedOrder(_, _)
SortedOrder(dets, n) ==
    IF n = 0 THEN <<>>
    ELSE InsertByConfidence(dets, SortedOrder(dets, n - 1), n)

\* is_duplicate comparing with the detection selected last only
IsDuplicateOfLast(dets, filtered, i) ==
    /\ filtered # <<>>
    /\ IouAbove(dets[i].bbox, dets[filtered[Len(filtered)]].bbox)
    /\ dets[i].class_name = dets[filtered[Len(filtered)]].class_name

\* is_duplicate without the comparison of the class names
IsDuplicateAnyClass(dets, filtered, i) ==
    \E k \in 1..Len(filtered) : IouAbove(dets[i].bbox, dets[filtered[k]].bbox)

\* is_duplicate: the detection overlaps an already selected one of its class
IsDuplicate(dets, filtered, i) ==
    \E k \in 1..Len(filtered) :
        /\ IouAbove(dets[i].bbox, dets[filtered[k]].bbox)
        /\ dets[i].class_name = dets[filtered[k]].class_name

\* the loop over the sorted detections
RECURSIVE FilterLoop(_, _, _)
FilterLoop(dets, order, filtered) ==
    IF order = <<>> THEN filtered
    ELSE FilterLoop(dets, Tail(order),
                    IF IsDuplicate(dets, filtered, Head(order)) THEN filtered
                    ELSE Append(filtered, Head(order)))

\* the indexes of the detections _filter_overlapping_detections returns, in its order
KeptIndexes(dets) == FilterLoop(dets, SortedOrder(dets, Len(dets)), <<>>)

\* _filter_overlapping_detections
FilterOverlappingDetections(dets) ==
    LET kept == KeptIndexes(dets)
    IN  [k \in 1..Len(kept) |-> dets[kept[k]]]

\* detect: the loop over the boxes of one model; a class id without a name raises
\* inside the try, which ends the loop for this model
RECURSIVE DetectBoxes(_, _, _)
DetectBoxes(category, boxes, detections) ==
    IF boxes = <<>> THEN detections
    ELSE LET b == Head(boxes)
         IN  IF b.confidence < ConfThresholdPercent
             THEN DetectBoxes(category, Tail(boxes), detections)
             ELSE IF b.class_name = NoName THEN detections
             ELSE DetectBoxes(category, Tail(boxes),
                      Append(detections,
                             [class_name |-> b.class_name, confidence |-> b.confidence,
                              bbox |-> ScaleBox(b.bbox), category |-> category]))

\* the loop over the models leaving it at the first model that raises
RECURSIVE DetectCollectStopping(_, _, _)
DetectCollectStopping(results, order, detections) ==
    IF order = <<>> THEN detections
    ELSE IF results[Head(order)].raises THEN detections
    ELSE DetectCollectStopping(results, Tail(order),
             DetectBoxes(Head(order), results[Head(order)].boxes, detections))

\* detect: for category, model in self.models.items(): try ... except Exception
RECURSIVE DetectCollect(_, _, _)
DetectCollect(results, order, detections) ==
    IF order = <<>> THEN detections
    ELSE DetectCollect(results, Tail(order),
             IF results[Head(order)].raises THEN detections
             ELSE DetectBoxes(Head(order), results[Head(order)].boxes, detections))

\* the list detect returns for a frame that is not empty
DetectResult(results) ==
    FilterOverlappingDetections(DetectCollect(results, ModelOrder, <<>>))

\* product.get("yolo_class") of the products of products.json
YoloClasses == (PidA :> LabelA) @@ (PidB :> LabelB)

\* JsonDatabase.get_product_by_yolo_class: the id of the first product of the class,
\* <<>> for None
GetProductByYoloClass(data, yolo_class) ==
    LET hits == {i \in 1..Len(data.products) :
                    YoloClasses[data.products[i].id] = yolo_class}
    IN  IF hits = {} THEN <<>>
        ELSE data.products[CHOOSE i \in hits : \A j \in hits : i <= j].id

\* detect_frame: the loop over the boxes of one model
RECURSIVE FrameBoxes(_, _, _, _)
FrameBoxes(data, category, boxes, detections) ==
    IF boxes = <<>> THEN detections
    ELSE LET b == Head(boxes)
         IN  IF b.class_name = NoName THEN detections
             ELSE FrameBoxes(data, category, Tail(boxes),
                      Append(detections,
                             [bbox |-> b.bbox, confidence |-> b.confidence,
                              class_name |-> b.class_name, category |-> category,
                              product |-> GetProductByYoloClass(data, b.class_name)]))

\* DetectionService.detect_frame, the service initialized with its models
RECURSIVE DetectFrameResult(_, _, _, _)
DetectFrameResult(data, results, order, detections) ==
    IF order = <<>> THEN detections
    ELSE DetectFrameResult(data, results, Tail(order),
             IF results[Head(order)].raises THEN detections
             ELSE FrameBoxes(data, Head(order), results[Head(order)].boxes, detections))

\* self.products of the detection client: class name -> web id and price
ClientProducts ==
    (LabelA :> [web_id |-> PidA, price |-> 1400])
    @@ (LabelB :> [web_id |-> PidB, price |-> 2000])

\* the web id detect_products makes up for a class it does not know
DetectedWebId(class_name) == Replace(Lower(class_name), " ", "-")

\* product_info of detect_products
ProductInfo(class_name) ==
    IF class_name \in DOMAIN ClientProducts THEN ClientProducts[class_name]
    ELSE [web_id |-> DetectedWebId(class_name), price |-> DefaultPrice]

\* detect_products: the loop over the boxes of one model
RECURSIVE ProductBoxes(_, _, _)
ProductBoxes(category, boxes, detections) ==
    IF boxes = <<>> THEN detections
    ELSE LET b == Head(boxes)
         IN  IF b.class_name = NoName THEN detections
             ELSE ProductBoxes(category, Tail(boxes),
                      Append(detections,
                             [bbox |-> b.bbox, confidence |-> b.confidence,
                              class_name |-> b.class_name, category |-> category,
                              price |-> ProductInfo(b.class_name).price,
                              web_id |-> ProductInfo(b.class_name).web_id]))

\* MinimalDetectionClient.detect_products
RECURSIVE DetectProductsResult(_, _, _)
DetectProductsResult(results, order, detections) ==
    IF order = <<>> THEN detections
    ELSE DetectProductsResult(results, Tail(order),
             IF results[Head(order)].raises THEN detections
             ELSE ProductBoxes(Head(order), results[Head(order)].boxes, detections))

\* YOLODetector.detect on a frame; an empty frame (frame.size = 0) returns [] at once
Detect(frame_size, results) ==
    /\ Len(raw) < MaxFrames
    /\ raw' = Append(raw, [op |-> "detect", size |-> frame_size, results |-> results])
    /\ last_detections' = IF frame_size = 0 THEN last_detections
                          ELSE DetectResult(results)
    /\ UNCHANGED <<srvvars, timevars, now, debounce_last, debounce_calls, debounce_log,
                   detected_products, preview, outcome, current_detections>>

\* DetectionService.detect_frame; the list goes back to the caller
DetectFrame(results) ==
    /\ Len(raw) < MaxFrames
    /\ raw' = Append(raw, [op |-> "detect_frame", size |-> 1, results |-> results])
    /\ outcome' = [op |-> "detect_frame", ok |-> TRUE,
                   report |-> DetectFrameResult(db, results, ModelOrder, <<>>),
                   requests |-> 0, failures |-> 0]
    /\ UNCHANGED <<srvvars, timevars, now, debounce_last, debounce_calls, debounce_log,
                   last_detections, detected_products, preview, current_detections>>

\* the detection client's frame step: self.current_detections = detect_products(frame)
DetectProducts(results) ==
    /\ Len(raw) < MaxFrames
    /\ raw' = Append(raw, [op |-> "detect_products", size |-> 1, results |-> results])
    /\ current_detections' = DetectProductsResult(results, ModelOrder, <<>>)
    /\ UNCHANGED <<srvvars, timevars, now, debounce_last, debounce_calls, debounce_log,
                   last_detections, detected_products, preview, outcome>>

NoBoxes == ("chips" :> [raises |-> FALSE, boxes |-> <<>>])
           @@ ("drinks" :> [raises |-> FALSE, boxes |-> <<>>])

InitDetect ==
    /\ ServiceIdle
    /\ DetectionIdle
    /\ TimeIdle

NextDetect ==
    \/ Detect(0, NoBoxes)
    \/ \E results \in FrameResults : Detect(1, results)
    \/ \E results \in FrameResults : DetectFrame(results)
    \/ \E results \in FrameResults : DetectProducts(results)

SpecDetect == InitDetect /\ [][NextDetect]_vars

\* ------------------------------------------------------- the scanner window
\* how a request to the cart service can end: the response arrives, the connection
\* fails before the service sees the request, or the wait for the response times out
Nets == {"response", "connection_error", "timeout"}

\* a class name the models give for product A besides LabelA, and one of no product
LabelA2 == <<"a", "b", "C">>
LabelX == <<"C", "C">>

\* the catalog index of the detecting process, keyed by the detector label
LocalIndex == (LabelA :> 1) @@ (LabelB :> 2)

\* the catalog of the detecting process holds the products of the store
LocalCatalog == [products |-> InitProducts]

\* the Unknown result: the label lowercased, spaces to dashes, the default price
UnknownProduct(class_name) ==
    [id |-> Replace(Lower(class_name), " ", "-"), price |-> DefaultPrice, stock |-> 0]

\* the resolver of the detecting process: exact match on the detector label, then the
\* canonical form and its dash/underscore variants, then the partial match on the
\* catalog ids, then Unknown
ResolveLabel(class_name) ==
    LET canonical == Strip(Replace(Lower(class_name), " ", "-"), "'")
        forms == <<class_name, canonical, Replace(canonical, "-", "_"),
                   Replace(canonical, "_", "-")>>
        found == {n \in 1..Len(forms) : forms[n] \in DOMAIN LocalIndex}
        partial == PartialMatch(LocalCatalog, class_name)
    IN  IF found # {}
        THEN InitProducts[LocalIndex[forms[CHOOSE n \in found : \A m \in found : n <= m]]]
        ELSE IF partial # 0 THEN InitProducts[partial]
        ELSE UnknownProduct(class_name)

\* add_detected_product without the look through the list
AddDetectedProductAlways(detected, product) == Append(detected, product)

\* ScannerWidget.add_detected_product
AddDetectedProduct(detected, product) ==
    IF \E k \in 1..Len(detected) : detected[k].id = product.id THEN detected
    ELSE Append(detected, product)

\* AddProduct checking each request against the stock, not the quantity already held
AddProductPerRequest(items, product, quantity) ==
    IF quantity > product.stock THEN items
    ELSE IF product.id \in DOMAIN items
    THEN [items EXCEPT ![product.id] = @ + quantity]
    ELSE (product.id :> quantity) @@ items

\* ShoppingCart.add_product on the items of the preview cart: product id -> quantity
AddProduct(items, product, quantity) ==
    IF quantity > product.stock THEN items
    ELSE IF product.id \in DOMAIN items
    THEN IF items[product.id] + quantity > product.stock THEN items
         ELSE [items EXCEPT ![product.id] = @ + quantity]
    ELSE (product.id :> quantity) @@ items

\* on_products_detected: the detected list and the preview cart after the detections
RECURSIVE OnProductsDetected(_, _, _)
OnProductsDetected(detected, items, detections) ==
    IF detections = <<>> THEN [detected |-> detected, items |-> items]
    ELSE LET product == ResolveLabel(Head(detections).class_name)
         IN  OnProductsDetected(AddDetectedProduct(detected, product),
                                AddProduct(items, product, 1),
                                Tail(detections))

\* a box of the given class as a model reports it
BoxOf(class_name, bbox) == [class_name |-> class_name, confidence |-> 90, bbox |-> bbox]

\* the frames of a scan: one product, one product in two places, one product under
\* two class names, two products, a product and an unknown class, and a frame on
\* which the chips model raises
ScanFrames ==
    {("chips" :> [raises |-> FALSE, boxes |-> c]) @@ ("drinks" :> [raises |-> FALSE, boxes |-> d]) :
        c \in {<<BoxOf(LabelA, BoxA)>>,
               <<BoxOf(LabelA, BoxA), BoxOf(LabelA, BoxC)>>,
               <<BoxOf(LabelA, BoxA), BoxOf(LabelB, BoxA)>>,
               <<BoxOf(LabelB, BoxA), BoxOf(LabelX, BoxA)>>},
        d \in {<<>>, <<BoxOf(LabelA2, BoxA)>>}}
    \cup {("chips" :> [raises |-> TRUE, boxes |-> <<>>])
          @@ ("drinks" :> [raises |-> FALSE, boxes |-> <<BoxOf(LabelB, BoxC)>>])}

\* on_scan_clicked: clear_detected, then capture_and_detect, whose detections, if
\* any, go to on_products_detected; without a current frame nothing is detected
OnScanClicked(has_frame, results) ==
    LET detections == IF has_frame THEN DetectResult(results) ELSE <<>>
        after == OnProductsDetected(<<>>, preview, detections)
    IN  /\ last_detections' = IF has_frame THEN detections ELSE last_detections
        /\ detected_products' = after.detected
        /\ preview' = after.items
        /\ outcome' = [op |-> "scan", ok |-> TRUE, report |-> "scanned",
                       requests |-> 0, failures |-> 0]
        /\ UNCHANGED <<srvvars, timevars, now, debounce_last, debounce_calls, debounce_log, raw,
                       current_detections>>

\* ScannerWidget.on_delete_item
OnDeleteItem(index) ==
    /\ detected_products' =
          IF 0 <= index /\ index < Len(detected_products)
          THEN SubSeq(detected_products, 1, index)
               \o SubSeq(detected_products, index + 2, Len(detected_products))
          ELSE detected_products
    /\ outcome' = [op |-> "delete", ok |-> TRUE, report |-> "deleted",
                   requests |-> 0, failures |-> 0]
    /\ UNCHANGED <<srvvars, timevars, now, debounce_last, debounce_calls, debounce_log, raw,
                   last_detections, preview, current_detections>>

\* the items of the batch request: one of quantity 1 for every detected product
BatchOf(detected) ==
    [k \in 1..Len(detected) |-> [product_id |-> detected[k].id, quantity |-> 1]]

\* on_add_to_web_cart with batch_send, as the window sets it: send_batch_to_api.
\* processed tells whether the service handled a request whose response timed out.
SendBatchToApi(net, processed) ==
    /\ detected_products # <<>>
    /\ processed = (net = "response") \/ net = "timeout"
    /\ LET r == AddBatchResult(db, carts, BatchOf(detected_products), "")
           success == net = "response" /\ r.resp.items_added > 0
       IN  /\ CartsInRange(r.carts)
           /\ carts' = IF processed THEN r.carts ELSE carts
           /\ resp' = IF processed THEN r.resp ELSE resp
           /\ detected_products' = IF success THEN <<>> ELSE detected_products
           /\ preview' = IF success THEN <<>> ELSE preview
           /\ outcome' = [op |-> "send_batch", ok |-> success,
                          report |-> CASE success -> "success"
                                       [] net = "response" -> "failed to send"
                                       [] net = "connection_error" -> "connection failed"
                                       [] OTHER -> "error",
                          requests |-> 1,
                          failures |-> IF net = "response" THEN 0 ELSE 1]
    /\ UNCHANGED <<timevars, db, uuids, th, acked, now, debounce_last, debounce_calls,
                   debounce_log, raw, last_detections, current_detections>>

\* send_individual_to_api: the loop over the detected products
RECURSIVE SendIndividualLoop(_, _, _, _)
SendIndividualLoop(data, products, nets, acc) ==
    IF products = <<>> THEN acc
    ELSE IF Head(nets) = "connection_error"
    THEN [acc EXCEPT !.requests = @ + 1, !.failures = @ + 1]
    ELSE IF Head(nets) = "timeout"
    THEN SendIndividualLoop(data, Tail(products), Tail(nets),
                            [acc EXCEPT !.requests = @ + 1, !.failures = @ + 1])
    ELSE LET r == AddToCartResult(data, acc.carts, Head(products).id, "", 1)
         IN  SendIndividualLoop(data, Tail(products), Tail(nets),
                 [acc EXCEPT !.carts = r.carts, !.resp = r.resp,
                             !.requests = @ + 1,
                             !.success_count =
                                 IF r.resp.status = 200 THEN @ + 1 ELSE @])

\* send_individual_to_api, the way on_add_to_web_cart sends without batch_send
SendIndividualToApi(nets) ==
    /\ detected_products # <<>>
    /\ Len(nets) = Len(detected_products)
    /\ LET acc == SendIndividualLoop(db, detected_products, nets,
                      [carts |-> carts, resp |-> resp, success_count |-> 0,
                       requests |-> 0, failures |-> 0])
       IN  /\ CartsInRange(acc.carts)
           /\ carts' = acc.carts
           /\ resp' = acc.resp
           /\ detected_products' = IF acc.success_count > 0 THEN <<>>
                                   ELSE detected_products
           /\ preview' = IF acc.success_count > 0 THEN <<>> ELSE preview
           /\ outcome' = [op |-> "send_individual", ok |-> acc.success_count > 0,
                          report |-> IF acc.success_count > 0 THEN "success"
                                     ELSE "failed to send",
                          requests |-> acc.requests, failures |-> acc.failures]
    /\ UNCHANGED <<timevars, db, uuids, th, acked, now, debounce_last, debounce_calls,
                   debounce_log, raw, last_detections, current_detections>>

InitScanner ==
    /\ ServiceIdle
    /\ DetectionIdle
    /\ TimeIdle

NextScanner ==
    \/ OnScanClicked(FALSE, NoBoxes)
    \/ \E results \in ScanFrames : OnScanClicked(TRUE, results)
    \/ \E index \in 0..MaxBoxes : OnDeleteItem(index)
    \/ \E net \in Nets, processed \in BOOLEAN : SendBatchToApi(net, processed)
    \/ \E nets \in SeqsUpTo(Nets, MaxBoxes) : SendIndividualToApi(nets)

SpecScanner == InitScanner /\ [][NextScanner]_vars

\* ------------------------------------------------------ the detection client
\* class names the client's models can give: one it knows, two it does not
ClientLabels == {LabelA, <<"B", " ", "C">>, <<"B", "'", "C">>}

ClientFrames ==
    {("chips" :> c) @@ ("drinks" :> d) :
        c \in ModelResults({[class_name |-> l, confidence |-> 90, bbox |-> BoxA] :
                               l \in ClientLabels}, MaxBoxes),
        d \in ModelResults({}, 0)}

\* product_id of send_to_cart
CartProductId(class_name) ==
    IF class_name \in DOMAIN ClientProducts THEN ClientProducts[class_name].web_id
    ELSE Strip(Replace(Lower(class_name), " ", "-"), "'")

\* send_to_cart: the loop over the detections
RECURSIVE SendToCartLoop(_, _, _, _)
SendToCartLoop(data, detections, nets, acc) ==
    IF detections = <<>> THEN acc
    ELSE LET product_id == CartProductId(Head(detections).class_name)
             sent == Append(acc.sent, product_id)
         IN  IF Head(nets) = "connection_error"
             THEN [acc EXCEPT !.sent = sent, !.failed_count = @ + 1, !.failures = @ + 1]
             ELSE IF Head(nets) = "timeout"
             THEN SendToCartLoop(data, Tail(detections), Tail(nets),
                      [acc EXCEPT !.sent = sent, !.failed_count = @ + 1,
                                  !.failures = @ + 1])
             ELSE LET r == AddToCartResult(data, acc.carts, product_id, "", 1)
                  IN  SendToCartLoop(data, Tail(detections), Tail(nets),
                          [acc EXCEPT !.sent = sent, !.carts = r.carts, !.resp = r.resp,
                                      !.success_count =
                                          IF r.resp.status = 200 THEN @ + 1 ELSE @,
                                      !.failed_count =
                                          IF r.resp.status = 200 THEN @ ELSE @ + 1])

\* SPACE: send_to_cart(self.current_detections) when there are detections
SendToCart(nets) ==
    /\ current_detections # <<>>
    /\ Len(nets) = Len(current_detections)
    /\ LET acc == SendToCartLoop(db, current_detections, nets,
                      [carts |-> carts, resp |-> resp, sent |-> <<>>,
                       success_count |-> 0, failed_count |-> 0, failures |-> 0])
       IN  /\ CartsInRange(acc.carts)
           /\ carts' = acc.carts
           /\ resp' = acc.resp
           /\ outcome' = [op |-> "send_to_cart", ok |-> acc.success_count > 0,
                          report |-> acc.sent, requests |-> Len(acc.sent),
                          failures |-> acc.failures]
    /\ UNCHANGED <<timevars, db, uuids, th, acked, now, debounce_last, debounce_calls,
                   debounce_log, raw, last_detections, detected_products, preview,
                   current_detections>>

\* 'c': self.current_detections = []
ClearDetections ==
    /\ current_detections' = <<>>
    /\ outcome' = [op |-> "clear", ok |-> TRUE, report |-> <<>>, requests |-> 0,
                   failures |-> 0]
    /\ UNCHANGED <<srvvars, timevars, now, debounce_last, debounce_calls, debounce_log, raw,
                   last_detections, detected_products, preview>>

InitClient ==
    /\ ServiceIdle
    /\ DetectionIdle
    /\ TimeIdle

NextClient ==
    \/ \E results \in ClientFrames : DetectProducts(results)
    \/ \E nets \in SeqsUpTo(Nets, MaxBoxes) : SendToCart(nets)
    \/ ClearDetections

SpecClient == InitClient /\ [][NextClient]_vars

\* ------------------------------------------------------------ the resolver
\* ids a products.json can hold
CatalogIds == {PidA, PidB, <<"a", "b", "_", "c">>, <<"x", "a", "b">>}

\* the products lists of the resolver's catalogs: up to two products of different ids
Catalogs ==
    {[k \in 1..Len(ids) |-> [id |-> ids[k], price |-> 1400, stock |-> MaxStock]] :
        ids \in {c \in SeqsUpTo(CatalogIds, 2) : Len(c) = 2 => c[1] # c[2]}}

\* product ids as requests carry them
ResolverQueries ==
    {PidA, PidB, <<"a", "b", "_", "c">>, <<"A", "B", "-", "C">>, <<"A", "B", "_", "C">>,
     <<"A", "b">>, <<"a", "b", " ", "c">>, <<"a", "'", "b">>, <<"b", "-", "c">>,
     <<"a", "b", "c">>, <<"a", "-", "b">>, <<"c">>, <<"x">>, <<>>}

InitResolve ==
    /\ db \in {[InitDb([theme |-> "light"]) EXCEPT !.products = c] : c \in Catalogs}
    /\ carts = <<>>
    /\ uuids = 0
    /\ resp = Response("none", 200, "")
    /\ th = [t \in Threads |-> Idle(0)]
    /\ acked = NoAcks
    /\ DetectionIdle
    /\ TimeIdle

NextResolve ==
    \/ \E q \in ResolverQueries : AddToCart(q, "", 1)
    \/ \E q \in ResolverQueries : RemoveFromCart(q, "")
    \/ ClearCart("")

SpecResolve == InitResolve /\ [][NextResolve]_vars

\* ------------------------------------------------------------------ claims
ProductIndexes == 1..Len(db.products)

Completed(p) ==
    p \in DOMAIN db.pending_payments /\ db.pending_payments[p].status = "completed"

SalesOf(data, p) == {n \in 1..Len(data.sales) : data.sales[n].payment_id = p}

\* C1: a confirm-payment call for a payment that is already completed answers
\* "already processed" and leaves every product's stock and the sales list as they were.
C1_SecondConfirmRejected ==
    \A p \in PaymentIds :
        Completed(p) =>
            LET r == ConfirmResult(db, p)
            IN  /\ r.resp.status = 400
                /\ r.resp.error = "already processed"
                /\ r.db.products = db.products
                /\ r.db.sales = db.sales
                /\ Cardinality(SalesOf(db, p)) = 1

C1_Witness ==
    /\ resp.op = "confirm"
    /\ resp.error = "already processed"
    /\ \E p \in PaymentIds : Completed(p) /\ Cardinality(SalesOf(db, p)) = 1

\* C4: every product's stock is >= 0 in every reachable state.
C4_StockNeverNegative ==
    \A i \in ProductIndexes : db.products[i].stock >= 0

\* the number of lines of a product in a list of cart lines
RECURSIVE CountLines(_, _)
CountLines(lines, product_id) ==
    IF lines = <<>> THEN 0
    ELSE (IF Head(lines).product_id = product_id THEN 1 ELSE 0)
         + CountLines(Tail(lines), product_id)

RECURSIVE SumOver(_, _, _)
SumOver(data, lines, n) ==
    IF n = 0 THEN 0
    ELSE data.products[n].price * CountLines(lines, data.products[n].id)
         + SumOver(data, lines, n - 1)

\* C8: a checkout of a non-empty cart stores a pending payment whose subtotal is the
\* sum over the products of unit price times quantity, whose tax is exactly
\* subtotal * tax_rate (the settings value, 0.07 when the settings hold none) and whose
\* total is subtotal + tax; 3 units at 14.00 give 42.00 / 2.94 / 44.94.
C8_CheckoutTotals ==
    /\ \A s \in SessionArgs :
          Items(carts, s) # <<>> =>
              LET r == CheckoutResult(db, carts, s, uuids + 1)
                  pay == r.db.pending_payments[uuids + 1]
                  rate == IF "tax_rate" \in DOMAIN db.settings
                          THEN db.settings.tax_rate ELSE 7
                  subtotal == SumOver(db, Items(carts, s), Len(db.products))
              IN  /\ r.resp.status = 200
                  /\ uuids + 1 \notin DOMAIN db.pending_payments
                  /\ pay.status = "pending"
                  /\ pay.subtotal = subtotal
                  /\ pay.tax * 100 = subtotal * rate
                  /\ pay.total = pay.subtotal + pay.tax
    /\ LET three == [items |-> <<[product_id |-> PidA, price |-> 1400, quantity |-> 3]>>,
                     total_items |-> 3, unique_items |-> 1]
           pay == MakePayment(1, three, DefaultTaxRate, "")
       IN  pay.subtotal = 4200 /\ pay.tax = 294 /\ pay.total = 4494

C8_Witness ==
    /\ resp.op = "checkout"
    /\ resp.status = 200
    /\ \E p \in DOMAIN db.pending_payments :
          /\ db.pending_payments[p].status = "pending"
          /\ Len(db.pending_payments[p].items) = 2
          /\ db.pending_payments[p].tax = 238

\* C9: confirming a pending payment appends exactly one Sale, whose payment_id, items,
\* subtotal, tax and total are those of the payment, and completes the payment.
C9_ConfirmCreatesOneSale ==
    \A p \in PaymentIds :
        IsPending(db, p) =>
            LET pay == db.pending_payments[p]
                r == ConfirmResult(db, p)
                sale == r.db.sales[Len(r.db.sales)]
            IN  /\ r.resp.status = 200
                /\ Len(r.db.sales) = Len(db.sales) + 1
                /\ SubSeq(r.db.sales, 1, Len(db.sales)) = db.sales
                /\ Cardinality(SalesOf(r.db, p)) = 1
                /\ sale.payment_id = p
                /\ sale.items = pay.items
                /\ sale.subtotal = pay.subtotal
                /\ sale.tax = pay.tax
                /\ sale.total = pay.total
                /\ r.db.pending_payments[p] = [pay EXCEPT !.status = "completed"]

C9_Witness ==
    /\ resp.op = "confirm"
    /\ resp.status = 200
    /\ \E p \in PaymentIds :
          /\ Completed(p)
          /\ Cardinality(SalesOf(db, p)) = 1
          /\ db.pending_payments[p].tax > 0

\* the quantity a payment holds for a product (a summary lists a product once)
RECURSIVE QuantityOf(_, _)
QuantityOf(items, product_id) ==
    IF items = <<>> THEN 0
    ELSE (IF Head(items).product_id = product_id THEN Head(items).quantity ELSE 0)
         + QuantityOf(Tail(items), product_id)

\* C10: on confirmation each line is handled on its own: a product whose stock covers
\* the line's quantity loses exactly that quantity, any other product keeps its stock,
\* and the confirmation succeeds either way (Sale appended, payment completed).
C10_PerLineDecrement ==
    \A p \in PaymentIds :
        IsPending(db, p) =>
            LET r == ConfirmResult(db, p)
            IN  /\ \A i \in ProductIndexes :
                      LET q == QuantityOf(db.pending_payments[p].items, db.products[i].id)
                      IN  r.db.products[i].stock =
                              IF db.products[i].stock >= q
                              THEN db.products[i].stock - q
                              ELSE db.products[i].stock
                /\ r.resp.status = 200
                /\ Len(r.db.sales) = Len(db.sales) + 1
                /\ r.db.pending_payments[p].status = "completed"

\* after a confirmation of a two-line payment: one product still holds stock, so its line
\* was subtracted; the other is below zero, which no subtraction leaves, so its line was skipped
C10_Witness ==
    /\ resp.op = "confirm"
    /\ resp.status = 200
    /\ \E p \in PaymentIds :
          /\ Completed(p)
          /\ Len(db.pending_payments[p].items) = 2
          /\ \E i, j \in ProductIndexes :
                /\ QuantityOf(db.pending_payments[p].items, db.products[i].id) > 0
                /\ QuantityOf(db.pending_payments[p].items, db.products[j].id) > 0
                /\ db.products[i].stock > 0
                /\ db.products[j].stock < 0

\* C5: an add-to-cart call whose quantity exceeds the resolved product's stock answers
\* with the insufficient-stock error and leaves the session's cart lines as they were.
C5_AddRejectsOverStock ==
    \A q \in QueryIds, s \in SessionArgs, n \in Quantities :
        LET i == GetProductFlexible(db, q)
        IN  (i # 0 /\ n > db.products[i].stock) =>
                LET r == AddToCartResult(db, carts, q, s, n)
                IN  /\ r.resp.status = 400
                    /\ r.resp.error = "insufficient stock"
                    /\ Items(r.carts, s) = Items(carts, s)
                    /\ r.carts = carts

\* a rejected add on a session that already holds lines
C5_Witness ==
    /\ resp.op = "add_to_cart"
    /\ resp.error = "insufficient stock"
    /\ \E k \in DOMAIN carts : Len(carts[k]) > 0

\* an item of a batch passes the product-exists and stock checks
Accepted(data, item) ==
    LET i == GetProductFlexible(data, item.product_id)
    IN  i # 0 /\ item.quantity <= data.products[i].stock

RECURSIVE SumAccepted(_, _)
SumAccepted(data, items) ==
    IF items = <<>> THEN 0
    ELSE (IF Accepted(data, Head(items)) THEN Head(items).quantity ELSE 0)
         + SumAccepted(data, Tail(items))

RECURSIVE UnitsAccepted(_, _)
UnitsAccepted(data, items) ==
    IF items = <<>> THEN 0
    ELSE (IF Accepted(data, Head(items)) THEN Max(Head(items).quantity, 0) ELSE 0)
         + UnitsAccepted(data, Tail(items))

Rejected(data, items) == {n \in 1..Len(items) : ~Accepted(data, items[n])}

\* the lines a batch is to append: for each accepted item, in order, one line per unit
RECURSIVE ExpectedLines(_, _)
ExpectedLines(data, items) ==
    IF items = <<>> THEN <<>>
    ELSE LET item == Head(items)
             i == GetProductFlexible(data, item.product_id)
         IN  (IF Accepted(data, item)
              THEN [n \in 1..Max(item.quantity, 0) |->
                      [product_id |-> data.products[i].id, price |-> data.products[i].price]]
              ELSE <<>>)
             \o ExpectedLines(data, Tail(items))

\* C6 as claimed: the lines a batch appends number the sum of the accepted items'
\* quantities, and its error strings number the rejected items.
C6_LinesAreSumOfQuantities ==
    \A items \in Batches, s \in {"", "s1"} :
        LET r == AddBatchResult(db, carts, items, s)
        IN  /\ Len(Items(r.carts, s)) - Len(Items(carts, s)) = SumAccepted(db, items)
            /\ r.resp.nerrors = Cardinality(Rejected(db, items))

\* C6 amended: every item is judged on its own (accepted exactly when its product resolves
\* and its quantity <= the stock); the batch appends, in order, one line per unit of each
\* accepted item, an accepted item of quantity <= 0 adding none, and reports one error
\* per rejected item.
C6_BatchPerItem ==
    \A items \in Batches, s \in {"", "s1"} :
        LET r == AddBatchResult(db, carts, items, s)
        IN  /\ Items(r.carts, s) = Items(carts, s) \o ExpectedLines(db, items)
            /\ Len(Items(r.carts, s)) - Len(Items(carts, s)) = UnitsAccepted(db, items)
            /\ r.resp.items_added = UnitsAccepted(db, items)
            /\ r.resp.nerrors = Cardinality(Rejected(db, items))

\* a batch of three that added two lines and reported one error
C6_Witness ==
    /\ resp.op = "add_batch"
    /\ resp.items_added = 2
    /\ resp.nerrors = 1
    /\ resp.success

\* C7 as claimed: success is true exactly when some item of the batch passed the
\* product-exists and stock checks.
C7_SuccessIffItemAccepted ==
    \A items \in Batches, s \in {"", "s1"} :
        AddBatchResult(db, carts, items, s).resp.success
            <=> \E n \in 1..Len(items) : Accepted(db, items[n])

\* C7 amended: success is true exactly when the batch appended at least one line, that
\* is when some item passed both checks with a quantity >= 1; it is false when every
\* item was rejected or every accepted item asked for no units.
C7_SuccessIffLineAdded ==
    \A items \in Batches, s \in {"", "s1"} :
        LET r == AddBatchResult(db, carts, items, s)
        IN  /\ r.resp.success <=>
                  \E n \in 1..Len(items) : Accepted(db, items[n]) /\ items[n].quantity >= 1
            /\ r.resp.success <=> Len(Items(r.carts, s)) > Len(Items(carts, s))

\* a batch every item of which was rejected, and so reported as failed
C7_Witness ==
    /\ resp.op = "add_batch"
    /\ ~resp.success
    /\ resp.nerrors = 2
    /\ resp.items_added = 0

\* -------------------------------- concurrent calls of JsonDatabase's methods
\* Each call is two steps: _read_db under the lock (the thread keeps the dict it read),
\* then the change to that dict and _write_db under the lock (json_db.py lines 19-27).
\* acked records what the calls that returned successfully have reported.

\* the payment a caller hands to add_pending_payment: one unit of the first product
OnePayment(payment_id) ==
    MakePayment(payment_id,
                [items |-> <<[product_id |-> PidA, price |-> InitProducts[1].price,
                              quantity |-> 1]>>,
                 total_items |-> 1, unique_items |-> 1],
                DefaultTaxRate, "")

\* self._read_db() at the head of a method
ReadDb(t, call) ==
    /\ th[t].pc = "idle"
    /\ th[t].n < MaxCalls
    /\ th' = [th EXCEPT ![t] = [pc |-> "read", n |-> th[t].n + 1, call |-> call, data |-> db]]

StockDelta(before, after) ==
    [i \in 1..Len(before.products) |-> after.products[i].stock - before.products[i].stock]

AckStock(before, after) ==
    [i \in 1..Len(before.products) |-> acked.stock[i] + StockDelta(before, after)[i]]

StartUpdateStock(t, product_id, quantity, operation) ==
    /\ ReadDb(t, [NoCall EXCEPT !.op = "update_stock", !.product_id = product_id,
                                !.quantity = quantity, !.operation = operation])
    /\ UNCHANGED <<detvars, timevars, db, carts, uuids, resp, acked>>

FinishUpdateStock(t) ==
    /\ th[t].pc = "read"
    /\ th[t].call.op = "update_stock"
    /\ LET c == th[t].call
           r == UpdateStock(th[t].data, c.product_id, c.quantity, c.operation)
       IN  /\ db' = IF r.wrote THEN r.data ELSE db
           /\ StockInRange(db')
           /\ acked' = IF r.ok
                       THEN [acked EXCEPT !.stock = AckStock(th[t].data, r.data)]
                       ELSE acked
    /\ th' = [th EXCEPT ![t] = Idle(th[t].n)]
    /\ UNCHANGED <<detvars, timevars, carts, uuids, resp>>

StartAddPendingPayment(t) ==
    /\ uuids < MaxPayments
    /\ uuids' = uuids + 1
    /\ ReadDb(t, [NoCall EXCEPT !.op = "add_pending_payment", !.payment_id = uuids + 1])
    /\ UNCHANGED <<detvars, timevars, db, carts, resp, acked>>

FinishAddPendingPayment(t) ==
    /\ th[t].pc = "read"
    /\ th[t].call.op = "add_pending_payment"
    /\ LET c == th[t].call
       IN  /\ db' = AddPendingPayment(th[t].data, c.payment_id, OnePayment(c.payment_id))
           /\ acked' = [acked EXCEPT !.paid = @ \cup {c.payment_id}]
    /\ th' = [th EXCEPT ![t] = Idle(th[t].n)]
    /\ UNCHANGED <<detvars, timevars, carts, uuids, resp>>

StartProcessPendingPayment(t, payment_id) ==
    /\ ReadDb(t, [NoCall EXCEPT !.op = "process_pending_payment", !.payment_id = payment_id])
    /\ UNCHANGED <<detvars, timevars, db, carts, uuids, resp, acked>>

FinishProcessPendingPayment(t) ==
    /\ th[t].pc = "read"
    /\ th[t].call.op = "process_pending_payment"
    /\ LET c == th[t].call
           r == ProcessPendingPayment(th[t].data, c.payment_id)
       IN  /\ db' = IF r.sale # <<>> THEN r.data ELSE db
           /\ StockInRange(db')
           /\ acked' = IF r.sale # <<>>
                       THEN [acked EXCEPT !.sales[c.payment_id] = @ + 1,
                                          !.stock = AckStock(th[t].data, r.data)]
                       ELSE acked
    /\ th' = [th EXCEPT ![t] = Idle(th[t].n)]
    /\ UNCHANGED <<detvars, timevars, carts, uuids, resp>>

StartSetTheme(t, theme) ==
    /\ ReadDb(t, [NoCall EXCEPT !.op = "set_theme", !.theme = theme])
    /\ UNCHANGED <<detvars, timevars, db, carts, uuids, resp, acked>>

FinishSetTheme(t) ==
    /\ th[t].pc = "read"
    /\ th[t].call.op = "set_theme"
    /\ db' = SetThemeData(th[t].data, th[t].call.theme)
    /\ acked' = [acked EXCEPT !.theme = th[t].call.theme]
    /\ th' = [th EXCEPT ![t] = Idle(th[t].n)]
    /\ UNCHANGED <<detvars, timevars, carts, uuids, resp>>

InitConc ==
    /\ db = InitDb([theme |-> "light"])
    /\ carts = <<>>
    /\ uuids = 0
    /\ resp = Response("none", 200, "")
    /\ th = [t \in Threads |-> Idle(0)]
    /\ acked = NoAcks
    /\ DetectionIdle
    /\ TimeIdle

NextConc ==
    \/ \E t \in Threads, n \in {1, 2}, o \in {"add", "subtract"} :
          StartUpdateStock(t, PidA, n, o)
    \/ \E t \in Threads : FinishUpdateStock(t)
    \/ \E t \in Threads : StartAddPendingPayment(t)
    \/ \E t \in Threads : FinishAddPendingPayment(t)
    \/ \E t \in Threads, p \in PaymentIds : StartProcessPendingPayment(t, p)
    \/ \E t \in Threads : FinishProcessPendingPayment(t)
    \/ \E t \in Threads : StartSetTheme(t, "dark")
    \/ \E t \in Threads : FinishSetTheme(t)

SpecConc == InitConc /\ [][NextConc]_vars

AllIdle == \A t \in Threads : th[t].pc = "idle"

\* C2: for every payment id at most one Sale is ever written to the store, whatever
\* the interleaving of the concurrent process_pending_payment calls, and the store never
\* holds two Sales of one payment.
C2_OneSalePerPayment ==
    \A p \in PaymentIds :
        /\ acked.sales[p] <= 1
        /\ Cardinality(SalesOf(db, p)) <= 1

\* C3: once no call is in progress the store holds the effect of every call that
\* reported success: the stock is the initial stock plus every acknowledged change,
\* every inserted payment is there, every payment a Sale was returned for is completed
\* with its Sale, and the theme is the one set.
C3_NoLostUpdate ==
    AllIdle =>
        /\ \A i \in ProductIndexes : db.products[i].stock = acked.stock[i]
        /\ acked.paid \subseteq DOMAIN db.pending_payments
        /\ \A p \in PaymentIds :
              acked.sales[p] > 0 => Completed(p) /\ SalesOf(db, p) # {}
        /\ db.settings.theme = acked.theme

\* --------------------------------------------------- the stock consistency gap
\* the payments of two different sessions that both hold units of product i while the
\* stock covers the first payment's units and nothing more
LastUnitsSoldTwice(p1, p2, i) ==
    /\ p1 # p2
    /\ IsPending(db, p1)
    /\ IsPending(db, p2)
    /\ db.pending_payments[p1].session_id # db.pending_payments[p2].session_id
    /\ QuantityOf(db.pending_payments[p1].items, db.products[i].id) = db.products[i].stock
    /\ QuantityOf(db.pending_payments[p2].items, db.products[i].id) >= 1
    /\ db.products[i].stock >= 1

\* C11: when two sessions have both checked out the last unit(s) of a product, both
\* confirmations succeed and each appends its Sale; the first takes the stock to 0 and
\* the second leaves it at 0, skipping its decrement, with no error reported.
C11_GapBothConfirmed ==
    \A p1, p2 \in 1..MaxGapPayments, i \in ProductIndexes :
        LastUnitsSoldTwice(p1, p2, i) =>
            LET r1 == ConfirmResult(db, p1)
                r2 == ConfirmResult(r1.db, p2)
            IN  /\ r1.resp.status = 200 /\ r1.resp.error = ""
                /\ r2.resp.status = 200 /\ r2.resp.error = ""
                /\ r1.db.products[i].stock = 0
                /\ r2.db.products[i].stock = 0
                /\ Len(r2.db.sales) = Len(db.sales) + 2
                /\ Cardinality(SalesOf(r2.db, p1)) = 1
                /\ Cardinality(SalesOf(r2.db, p2)) = 1
                /\ r2.db.pending_payments[p1].status = "completed"
                /\ r2.db.pending_payments[p2].status = "completed"

\* both sessions added the one unit of the second product, both checked out, both
\* confirmations succeeded: two Sales of one unit each, and the stock is 0
C11_Witness ==
    /\ resp.op = "confirm"
    /\ resp.status = 200
    /\ Len(db.sales) = 2
    /\ Completed(1) /\ Completed(2)
    /\ db.pending_payments[1].session_id # db.pending_payments[2].session_id
    /\ QuantityOf(db.sales[1].items, PidB) = 1
    /\ QuantityOf(db.sales[2].items, PidB) = 1
    /\ InitProducts[2].stock = 1
    /\ db.products[2].stock = 0

\* ------------------------------------------------------------------ checkout
\* C12: a checkout of a session without cart lines answers "cart is empty", creates no
\* pending payment and leaves the session's lines, every other cart and the store
\* (products, sales, pending_payments) as they were.
C12_EmptyCheckoutRejected ==
    \A s \in SessionArgs :
        Items(carts, s) = <<>> =>
            LET r == CheckoutResult(db, carts, s, uuids + 1)
            IN  /\ r.resp.status = 400
                /\ r.resp.error = "cart is empty"
                /\ ~r.created
                /\ r.db = db
                /\ DOMAIN r.db.pending_payments = DOMAIN db.pending_payments
                /\ Items(r.carts, s) = <<>>
                /\ \A k \in DOMAIN carts : r.carts[k] = carts[k]

\* an empty checkout answered while the store already holds a payment
C12_Witness ==
    /\ resp.op = "checkout"
    /\ resp.error = "cart is empty"
    /\ DOMAIN db.pending_payments # {}
    /\ Items(carts, "") = <<>>

\* the step appends no line to any cart
NoLineAdded ==
    \A k \in DOMAIN carts' :
        Len(carts'[k]) <= (IF k \in DOMAIN carts THEN Len(carts[k]) ELSE 0)

\* C13: a successful checkout leaves the session's cart without lines and stores a pending
\* payment that holds, for each product, the quantity the cart held; and no operation
\* other than an add puts a line into a cart afterwards (confirming or not confirming
\* the payment, restocking and checking out never do).
C13_CheckoutMovesLinesToPayment ==
    /\ [](\A s \in SessionArgs :
            Items(carts, s) # <<>> =>
                LET r == CheckoutResult(db, carts, s, uuids + 1)
                    pay == r.db.pending_payments[uuids + 1]
                IN  /\ r.resp.status = 200
                    /\ Items(r.carts, s) = <<>>
                    /\ pay.status = "pending"
                    /\ Len(pay.items) <= Len(Items(carts, s))
                    /\ \A n \in 1..Len(pay.items) :
                          pay.items[n].quantity =
                              CountLines(Items(carts, s), pay.items[n].product_id)
                    /\ \A i \in ProductIndexes :
                          QuantityOf(pay.items, db.products[i].id) =
                              CountLines(Items(carts, s), db.products[i].id))
    /\ [][resp'.op # "add_to_cart" => NoLineAdded]_vars

\* a payment of two units is still pending after a later restock, and the cart it was
\* taken from is empty
C13_Witness ==
    /\ resp.op = "restock"
    /\ resp.status = 200
    /\ Items(carts, "") = <<>>
    /\ \E p \in DOMAIN db.pending_payments :
          /\ db.pending_payments[p].status = "pending"
          /\ QuantityOf(db.pending_payments[p].items, PidA) = 2

\* C14: a checkout neither checks nor changes stock: it succeeds whatever the stock of
\* the products in the cart, and leaves every product's stock and the sales list unchanged.
C14_CheckoutIgnoresStock ==
    \A s \in SessionArgs :
        Items(carts, s) # <<>> =>
            LET r == CheckoutResult(db, carts, s, uuids + 1)
            IN  /\ r.resp.status = 200
                /\ r.created
                /\ r.db.products = db.products
                /\ r.db.sales = db.sales

\* a checkout that succeeded with more units of a product than the product's stock
C14_Witness ==
    /\ resp.op = "checkout"
    /\ resp.status = 200
    /\ \E p \in DOMAIN db.pending_payments, i \in ProductIndexes :
          /\ db.pending_payments[p].status = "pending"
          /\ QuantityOf(db.pending_payments[p].items, db.products[i].id)
                 > db.products[i].stock

\* C15: confirming a payment id the store does not hold answers "not found", which
\* differs in status and in message from the answer for a completed payment, and
\* changes nothing in the store.
C15_ConfirmUnknownPayment ==
    \A p \in 1..(MaxPayments + 1) :
        p \notin DOMAIN db.pending_payments =>
            LET r == ConfirmResult(db, p)
            IN  /\ r.resp.status = 404
                /\ r.resp.error = "not found"
                /\ r.db = db
                /\ \A q \in DOMAIN db.pending_payments :
                      Completed(q) =>
                          /\ ConfirmResult(db, q).resp.status # r.resp.status
                          /\ ConfirmResult(db, q).resp.error # r.resp.error

\* a confirmation of an unknown id answered while the store holds a completed payment
C15_Witness ==
    /\ resp.op = "confirm"
    /\ resp.status = 404
    /\ resp.error = "not found"
    /\ \E q \in DOMAIN db.pending_payments : Completed(q)

\* ------------------------------------------------------- the payment life cycle
\* what a step may do to the payments the store holds: a completed one stays, as it is,
\* and a status changes only from pending to completed
PaymentsOnlyComplete ==
    \A p \in DOMAIN db.pending_payments :
        /\ Completed(p) =>
               /\ p \in DOMAIN db'.pending_payments
               /\ db'.pending_payments[p] = db.pending_payments[p]
        /\ (/\ p \in DOMAIN db'.pending_payments
            /\ db'.pending_payments[p].status # db.pending_payments[p].status) =>
               /\ db.pending_payments[p].status = "pending"
               /\ db'.pending_payments[p].status = "completed"
               /\ db'.pending_payments[p].items = db.pending_payments[p].items
               /\ db'.pending_payments[p].total = db.pending_payments[p].total

\* C16: a completed payment stays completed with its items and totals under every
\* interleaving of the store's operations; the only status change is pending -> completed.
C16_CompletedIsTerminal == [][PaymentsOnlyComplete]_vars

\* ------------------------------------------------------------ the cart ledger
RECURSIVE SumPrices(_)
SumPrices(lines) ==
    IF lines = <<>> THEN 0 ELSE Head(lines).price + SumPrices(Tail(lines))

\* C17: the subtotal of a checkout is the sum over the cart's lines of the price each
\* line took when it was added, whatever the catalog's prices have become since.
C17_SubtotalIsSumOfLinePrices ==
    \A s \in SessionArgs :
        Items(carts, s) # <<>> =>
            CheckoutResult(db, carts, s, uuids + 1).db.pending_payments[uuids + 1].subtotal
                = SumPrices(Items(carts, s))

\* C18: remove_one takes exactly one line out of the session's cart, the earliest one of
\* the product, keeps the other lines in their order and returns true; without a line
\* of the product it returns false and the cart is as it was.  No other cart changes.
C18_RemoveEarliestLine ==
    \A q \in {PidA, PidB, <<"x">>}, s \in SessionArgs :
        LET lines == Items(carts, s)
            r == RemoveItem(carts, q, s)
            left == Items(r.carts, s)
            hits == {i \in 1..Len(lines) : lines[i].product_id = q}
        IN  /\ \A k \in DOMAIN carts : k # SessionKey(s) => r.carts[k] = carts[k]
            /\ hits = {} => ~r.ok /\ left = lines
            /\ hits # {} =>
                  /\ r.ok
                  /\ Len(left) = Len(lines) - 1
                  /\ \E i \in hits :
                        /\ \A j \in hits : i <= j
                        /\ \A j \in 1..(i - 1) : left[j] = lines[j]
                        /\ \A j \in i..Len(left) : left[j] = lines[j + 1]

\* after a removal from two lines of the first product taken at different prices, the
\* line left is the later one
C18_Witness ==
    /\ resp.op = "remove"
    /\ resp.status = 200
    /\ db.products[1].price = InitProducts[1].price + 100
    /\ Items(carts, "") = <<[product_id |-> PidA, price |-> InitProducts[1].price + 100]>>

\* C19: the summary of a session lists each product of the cart once, with the number
\* of the product's lines as its quantity; total_items is the number of lines and the
\* sum of the quantities, unique_items the number of products listed.
C19_SummaryCountsLines ==
    \A s \in SessionArgs :
        LET lines == Items(carts, s)
            summary == GetSummary(carts, s)
            listed == {summary.items[n].product_id : n \in 1..Len(summary.items)}
        IN  /\ \A n, m \in 1..Len(summary.items) :
                  summary.items[n].product_id = summary.items[m].product_id => n = m
            /\ listed = {lines[j].product_id : j \in 1..Len(lines)}
            /\ \A n \in 1..Len(summary.items) :
                  summary.items[n].quantity = CountLines(lines, summary.items[n].product_id)
            /\ summary.total_items = Len(lines)
            /\ summary.total_items =
                  QuantityOf(summary.items, PidA) + QuantityOf(summary.items, PidB)
            /\ summary.unique_items = Len(summary.items)
            /\ summary.unique_items = Cardinality(listed)

\* a batch put two lines of one product into the cart, after an earlier checkout
C19_Witness ==
    /\ resp.op = "add_batch"
    /\ DOMAIN db.pending_payments # {}
    /\ Len(Items(carts, "")) = 2
    /\ CountLines(Items(carts, ""), PidA) = 2
    /\ GetSummary(carts, "").unique_items = 1

\* C20: a summary call returns what the summary call before it returned when nothing
\* changed the cart in between, and changes no line of any session's cart (it creates
\* the session's cart, empty, when there was none).
C20_SummaryIsRead ==
    \A s \in SessionArgs :
        LET once == GetCart(carts, s)
            twice == GetCart(once, s)
        IN  /\ GetSummary(once, s) = GetSummary(carts, s)
            /\ GetSummary(twice, s) = GetSummary(once, s)
            /\ twice = once
            /\ \A k \in DOMAIN carts : once[k] = carts[k]
            /\ \A k \in DOMAIN once : k \notin DOMAIN carts => once[k] = <<>>

\* a summary was asked of a session without a cart while another session held lines
C20_Witness ==
    /\ resp.op = "get_cart"
    /\ DOMAIN carts = {"default", "s1"}
    /\ Len(carts["s1"]) = 2
    /\ carts["default"] = <<>>

\* -------------------------------------------------------- repeated deliveries
\* n lines of a product, as add_item writes them
LinesOf(product, n) ==
    [k \in 1..Max(n, 0) |-> [product_id |-> product.id, price |-> product.price]]

\* C21 as claimed: an add-to-cart request delivered twice leaves the cart with
\* 2 x quantity more lines whenever the quantity is <= the stock.
C21_TwiceAddsTwiceQuantity ==
    \A q \in QueryIds, s \in SessionArgs, n \in Quantities :
        LET i == GetProductFlexible(db, q)
        IN  (i # 0 /\ n <= db.products[i].stock) =>
                LET r1 == AddToCartResult(db, carts, q, s, n)
                    r2 == AddToCartResult(db, r1.carts, q, s, n)
                IN  Len(Items(r2.carts, s)) = Len(Items(carts, s)) + 2 * n

\* C21 amended: the ledger is not idempotent per request: an add-to-cart request with
\* 1 <= quantity <= stock delivered twice is accepted twice and appends its lines
\* twice, 2 x quantity lines of the product; a request with quantity <= 0 is accepted
\* too and appends nothing, however often it is delivered.
C21_TwiceAddsTwice ==
    \A q \in QueryIds, s \in SessionArgs, n \in Quantities :
        LET i == GetProductFlexible(db, q)
        IN  (i # 0 /\ n <= db.products[i].stock) =>
                LET r1 == AddToCartResult(db, carts, q, s, n)
                    r2 == AddToCartResult(db, r1.carts, q, s, n)
                IN  /\ r1.resp.status = 200
                    /\ r2.resp.status = 200
                    /\ Items(r1.carts, s) = Items(carts, s) \o LinesOf(db.products[i], n)
                    /\ Items(r2.carts, s) =
                          Items(carts, s) \o LinesOf(db.products[i], n)
                                         \o LinesOf(db.products[i], n)
                    /\ n >= 1 => Len(Items(r2.carts, s)) = Len(Items(carts, s)) + 2 * n
                    /\ n <= 0 => Items(r2.carts, s) = Items(carts, s)

\* the second delivery of a one-unit request has been answered: two lines of the product
C21_Witness ==
    /\ resp.op = "add_to_cart"
    /\ resp.status = 200
    /\ resp.items_added = 1
    /\ Items(carts, "") = LinesOf(InitProducts[1], 2)

\* --------------------------------------------------------------- the debouncer
\* the calls of the log before the j-th that were accepted for the same label
AcceptedBefore(j) ==
    {i \in 1..(j - 1) :
        /\ debounce_log[i].class_name = debounce_log[j].class_name
        /\ debounce_log[i].result}

LastAccepted(l) ==
    {debounce_log[i].current_time : i \in
        {i \in 1..Len(debounce_log) :
            /\ debounce_log[i].class_name = l
            /\ debounce_log[i].result
            /\ \A k \in (i + 1)..Len(debounce_log) :
                  ~(debounce_log[k].class_name = l /\ debounce_log[k].result)}}

OnlyCartChanged(cs, cs2, k) ==
    /\ DOMAIN cs2 \subseteq DOMAIN cs \cup {k}
    /\ \A o \in DOMAIN cs : o # k => (o \in DOMAIN cs2 /\ cs2[o] = cs[o])

\* C26: a request without a session id does what the same request for 'default' does,
\* and add, batch add, remove, clear and checkout on a session leave the lines of every
\* other session's cart as they were.
C26_SessionsIsolated ==
    /\ \A q \in QueryIds, n \in Quantities :
          AddToCartResult(db, carts, q, "", n) = AddToCartResult(db, carts, q, "default", n)
    /\ \A items \in SmallBatches :
          AddBatchResult(db, carts, items, "") = AddBatchResult(db, carts, items, "default")
    /\ \A q \in QueryIds :
          RemoveItem(carts, q, "") = RemoveItem(carts, q, "default")
    /\ ClearCartItems(carts, "") = ClearCartItems(carts, "default")
    /\ CheckoutResult(db, carts, "", uuids + 1) = CheckoutResult(db, carts, "default", uuids + 1)
    /\ \A s \in SessionArgs :
          LET k == IF s = "" THEN "default" ELSE s
          IN  /\ \A q \in QueryIds, n \in Quantities :
                    OnlyCartChanged(carts, AddToCartResult(db, carts, q, s, n).carts, k)
              /\ \A items \in SmallBatches :
                    OnlyCartChanged(carts, AddBatchResult(db, carts, items, s).carts, k)
              /\ \A q \in QueryIds :
                    OnlyCartChanged(carts, RemoveItem(carts, q, s).carts, k)
              /\ OnlyCartChanged(carts, ClearCartItems(carts, s), k)
              /\ OnlyCartChanged(carts, CheckoutResult(db, carts, s, uuids + 1).carts, k)

\* a line was removed from one session's cart while both the implicit session, filled
\* by requests without a session id, and another session held lines
C26_Witness ==
    /\ resp.op = "remove" /\ resp.status = 200
    /\ DOMAIN carts = {"default", "s1"}
    /\ carts["default"] # <<>>
    /\ carts["s1"] # <<>>

\* --------------------------------------------------------- overlap suppression
\* detect has run on a frame that is not empty
Detected == Len(raw) = 1 /\ raw[1].op = "detect" /\ raw[1].size = 1

\* the detections that went into the overlap suppression
Collected == DetectCollect(raw[1].results, ModelOrder, <<>>)

\* detection i of the collected ones is among those returned
Kept(i) == \E k \in 1..Len(KeptIndexes(Collected)) : KeptIndexes(Collected)[k] = i

\* two collected detections of one label whose IoU is above the threshold
SameLabelOverlap(i, j) ==
    /\ i # j
    /\ Collected[i].class_name = Collected[j].class_name
    /\ IouAbove(Collected[i].bbox, Collected[j].bbox)

\* C28 as claimed: of two detections with the same label and IoU above the threshold
\* exactly the one of higher confidence is kept, chains included.
C28_KeepsHigherOfEveryPair ==
    Detected =>
        \A i, j \in 1..Len(Collected) :
            (SameLabelOverlap(i, j)
             /\ Collected[i].confidence > Collected[j].confidence)
                => (Kept(i) /\ ~Kept(j))

\* C28 amended: of two detections with the same label and IoU above the threshold
\* never both are kept; a detection is dropped only for a kept detection of its label
\* that overlaps it and has a higher confidence, or an equal one and an earlier place
\* in the list; so the higher one of a pair is kept unless it is itself suppressed in
\* this way, and then (a chain) the lower one is kept when no kept detection of its
\* label overlaps it. A frame with just the two keeps exactly the higher one.
C28_GreedySuppression ==
    Detected =>
        /\ last_detections =
              [k \in 1..Len(KeptIndexes(Collected)) |-> Collected[KeptIndexes(Collected)[k]]]
        /\ \A i, j \in 1..Len(Collected) :
              SameLabelOverlap(i, j) => ~(Kept(i) /\ Kept(j))
        /\ \A j \in 1..Len(Collected) :
              ~Kept(j) =>
                  \E i \in 1..Len(Collected) :
                      /\ Kept(i)
                      /\ SameLabelOverlap(i, j)
                      /\ \/ Collected[i].confidence > Collected[j].confidence
                         \/ /\ Collected[i].confidence = Collected[j].confidence
                            /\ i < j
        /\ \A i, j \in 1..Len(Collected) :
              (SameLabelOverlap(i, j)
               /\ Collected[i].confidence > Collected[j].confidence
               /\ ~Kept(i))
                  => (Kept(j) <=>
                         ~\E k \in 1..Len(Collected) : Kept(k) /\ SameLabelOverlap(k, j))
        /\ (Len(Collected) = 2 /\ SameLabelOverlap(1, 2)
             /\ Collected[1].confidence # Collected[2].confidence)
                => /\ Len(last_detections) = 1
                   /\ last_detections[1].confidence =
                         Max(Collected[1].confidence, Collected[2].confidence)

\* a chain: the higher one of an overlapping pair was suppressed by a third detection,
\* and the lower one of the pair was returned
C28_Witness ==
    /\ Detected
    /\ \E i, j \in 1..Len(Collected) :
          /\ SameLabelOverlap(i, j)
          /\ Collected[i].confidence > Collected[j].confidence
          /\ ~Kept(i)
          /\ Kept(j)
          /\ \E k \in 1..Len(last_detections) : last_detections[k] = Collected[j]

\* C29: a detection is dropped only if a returned detection of the same label overlaps
\* it above the threshold; one that no detection of its own label overlaps is returned
\* whatever boxes of other labels lie on it, so two detections of different labels
\* are both returned even when their boxes are identical.
C29_OtherLabelsNeverSuppress ==
    Detected =>
        /\ \A j \in 1..Len(Collected) :
              ~Kept(j) => \E i \in 1..Len(Collected) : Kept(i) /\ SameLabelOverlap(i, j)
        /\ \A j \in 1..Len(Collected) :
              (\A i \in 1..Len(Collected) : ~SameLabelOverlap(i, j))
                  => /\ Kept(j)
                     /\ \E k \in 1..Len(last_detections) : last_detections[k] = Collected[j]
        /\ (\A i, j \in 1..Len(Collected) :
                i # j => Collected[i].class_name # Collected[j].class_name)
                  => Len(last_detections) = Len(Collected)

\* two detections of different labels on the same box were both returned
C29_Witness ==
    /\ Detected
    /\ \E k, m \in 1..Len(last_detections) :
          /\ last_detections[k].class_name # last_detections[m].class_name
          /\ last_detections[k].bbox = last_detections[m].bbox
          /\ last_detections[k].confidence < last_detections[m].confidence

\* ------------------------------------------------------------ a failing model
\* the boxes of the models whose invocation did not raise, in the order of the models
BoxesOfModel(results, c) ==
    IF results[c].raises THEN <<>>
    ELSE [k \in 1..Len(results[c].boxes) |->
             [category |-> c, class_name |-> results[c].boxes[k].class_name,
              confidence |-> results[c].boxes[k].confidence,
              bbox |-> results[c].boxes[k].bbox]]

BoxesReturned(results) == BoxesOfModel(results, "chips") \o BoxesOfModel(results, "drinks")

\* every box has a class name and a confidence that detect accepts
AllUsable(results) ==
    \A k \in 1..Len(BoxesReturned(results)) :
        /\ BoxesReturned(results)[k].class_name # NoName
        /\ BoxesReturned(results)[k].confidence >= ConfThresholdPercent

\* the fields of a returned detection that come from the model
AsBox(d) ==
    [category |-> d.category, class_name |-> d.class_name,
     confidence |-> d.confidence, bbox |-> d.bbox]

\* C30: when the invocation of a sub-model raised, detect, detect_frame and
\* detect_products still return a list; it holds no detection of that sub-model, and
\* the detections of the other sub-models are in it as they would be had that
\* sub-model found nothing (detect: as far as the overlap suppression keeps them).
C30_FailingModelContributesNothing ==
    (Len(raw) = 1 /\ raw[1].size = 1
     /\ \E c \in {"chips", "drinks"} : raw[1].results[c].raises) =>
        LET results == raw[1].results
            returned == CASE raw[1].op = "detect" -> last_detections
                          [] raw[1].op = "detect_frame" -> outcome.report
                          [] OTHER -> current_detections
            expected == BoxesReturned(results)
        IN  /\ \A k \in 1..Len(returned) : ~results[returned[k].category].raises
            /\ (raw[1].op # "detect" /\ AllUsable(results)) =>
                   [k \in 1..Len(returned) |-> AsBox(returned[k])] = expected
            /\ (raw[1].op = "detect" /\ AllUsable(results)) =>
                   \A k \in 1..Len(expected) :
                       \E m \in 1..Len(returned) :
                           /\ returned[m].class_name = expected[k].class_name
                           /\ \/ AsBox(returned[m]) =
                                    [expected[k] EXCEPT !.bbox = ScaleBox(@)]
                              \/ /\ IouAbove(returned[m].bbox, ScaleBox(expected[k].bbox))
                                 /\ returned[m].confidence >= expected[k].confidence

\* the first sub-model raised and the detection of the second one was returned
C30_Witness ==
    /\ Len(raw) = 1 /\ raw[1].size = 1
    /\ raw[1].results["chips"].raises
    /\ raw[1].results["drinks"].boxes # <<>>
    /\ \/ raw[1].op = "detect" /\ Len(last_detections) = 1
       \/ raw[1].op = "detect_frame" /\ Len(outcome.report) = 1
       \/ raw[1].op = "detect_products" /\ Len(current_detections) = 1

\* ------------------------------------------------------------ the scan batch
\* the number of lines of a product in the cart of the implicit session
LineCount(cs, product_id) ==
    Cardinality({k \in 1..Len(Items(cs, "")) : Items(cs, "")[k].product_id = product_id})

\* C24: whatever a scan detected, the detected list holds every product at most once,
\* each entry being the product of a detection of the scan, and one batch send of the
\* list adds at most one cart line per product.
C24_OneEntryPerProduct ==
    /\ \A i, j \in 1..Len(detected_products) :
          i # j => detected_products[i].id # detected_products[j].id
    /\ \A k \in 1..Len(detected_products) :
          \E d \in 1..Len(last_detections) :
              ResolveLabel(last_detections[d].class_name).id = detected_products[k].id
    /\ LET r == AddBatchResult(db, carts, BatchOf(detected_products), "")
       IN  /\ \A i \in 1..Len(db.products) :
                 LineCount(r.carts, db.products[i].id)
                     <= LineCount(carts, db.products[i].id) + 1
           /\ Len(Items(r.carts, "")) <= Len(Items(carts, "")) + Len(detected_products)
           /\ r.resp.items_added <= Len(detected_products)

\* a scan found one product twice, and the batch send that followed left one line
C24_Witness ==
    /\ outcome.op = "send_batch" /\ outcome.ok
    /\ \E d, e \in 1..Len(last_detections) :
          /\ d # e
          /\ ResolveLabel(last_detections[d].class_name).id
                = ResolveLabel(last_detections[e].class_name).id
    /\ Len(Items(carts, "")) = 1

\* C25: a send in which a request met a connection failure or a timeout leaves the
\* detected list and the preview cart as they were, and asks the service at most once
\* per item.
C25_FailedSendKeepsLists ==
    [][(outcome'.op \in {"send_batch", "send_individual"} /\ outcome'.failures > 0)
          => /\ detected_products' = detected_products
             /\ preview' = preview
             /\ outcome'.requests <= Len(detected_products)]_vars

\* -------------------------------------------------------- synthesized ids
\* C27: every detection record carries the mapped web id and price of its class, or,
\* for a class the client does not know, the id made of the class name lowercased with
\* dashes for spaces and the default price; and the add-to-cart request sent for a
\* detection names the id its record carries.
C27_SameIdEverywhere ==
    /\ \A k \in 1..Len(current_detections) :
          LET d == current_detections[k]
          IN  IF d.class_name \in DOMAIN ClientProducts
              THEN /\ d.web_id = ClientProducts[d.class_name].web_id
                   /\ d.price = ClientProducts[d.class_name].price
              ELSE /\ d.web_id = Replace(Lower(d.class_name), " ", "-")
                   /\ d.price = DefaultPrice
    /\ outcome.op = "send_to_cart" =>
          \A k \in 1..Len(outcome.report) :
              outcome.report[k] = current_detections[k].web_id

\* ------------------------------------------------------------ resolution order
\* the stages of the resolution, told of a query and a product of the catalog
ExactHit(q, i) == db.products[i].id = q

VariantHit(q, i) ==
    db.products[i].id \in
        {Replace(q, "_", "-"), Replace(q, "-", "_"), Lower(q),
         Replace(Lower(q), "_", "-"), Replace(Lower(q), "-", "_")}

PartialHit(q, i) ==
    \/ Contains(Lower(q), Lower(db.products[i].id))
    \/ Lower(Strip(Strip(db.products[i].id, "-"), "_")) = Lower(Strip(Strip(q, "-"), "_"))

\* C31: the stages apply in order and the first match wins: a query equal to a catalog
\* id resolves to that product whatever other ids contain it, a query with a case or
\* dash/underscore variant in the catalog resolves to such a variant and not to a
\* product that only matches partially, a query that only matches partially resolves
\* to the first product that does, and a query matching at no stage is not found.
C31_FirstStageWins ==
    \A q \in ResolverQueries :
        LET n == Len(db.products)
            r == GetProductFlexible(db, q)
        IN  /\ (\E i \in 1..n : ExactHit(q, i)) => (r # 0 /\ ExactHit(q, r))
            /\ ((\A i \in 1..n : ~ExactHit(q, i)) /\ (\E i \in 1..n : VariantHit(q, i)))
                  => (r # 0 /\ VariantHit(q, r))
            /\ ((\A i \in 1..n : ~ExactHit(q, i) /\ ~VariantHit(q, i))
                 /\ (\E i \in 1..n : PartialHit(q, i)))
                  => (r # 0 /\ PartialHit(q, r) /\ \A i \in 1..(r - 1) : ~PartialHit(q, i))
            /\ (\A i \in 1..n : ~ExactHit(q, i) /\ ~VariantHit(q, i) /\ ~PartialHit(q, i))
                  => r = 0

\* the product of id "ab" was added by a request naming it in capitals although the
\* first product of the catalog, "ab-c", contains the query
C31_Witness ==
    /\ Len(db.products) = 2
    /\ db.products[1].id = PidA /\ db.products[2].id = PidB
    /\ resp.op = "add_to_cart" /\ resp.status = 200
    /\ GetProductFlexible(db, <<"A", "b">>) = 2
    /\ PartialHit(<<"A", "b">>, 1)
    /\ Len(Items(carts, "")) = 1
    /\ Items(carts, "")[1].product_id = PidB

\* the canonical form of a label: lowercase, a dash for a space or an underscore, no
\* apostrophes
Canonical(label) == Strip(Replace(Replace(Lower(label), " ", "-"), "_", "-"), "'")

\* C32: a query that differs from a catalog id only by letter case, apostrophes, a
\* space in place of a dash, or dashes swapped with underscores resolves to a product
\* of that canonical form.
C32_NormalizedLabelResolves ==
    \A q \in ResolverQueries :
        (\E i \in 1..Len(db.products) : Canonical(db.products[i].id) = Canonical(q))
            => /\ GetProductFlexible(db, q) # 0
               /\ Canonical(db.products[GetProductFlexible(db, q)].id) = Canonical(q)

\* ------------------------------------------------------------------ Sale ids
\* f"SALE-{datetime.now().strftime('%Y%m%d%H%M%S')}": the time cut to whole seconds
SaleId(current_time) == current_time \div TicksPerSecond

TickClock(limit) ==
    /\ clock < limit
    /\ clock' = clock + 1
    /\ UNCHANGED <<srvvars, detvars, sale_ids, created_at, task, ledger, cleaned>>

\* POST /api/confirm-payment/{payment_id}, with the id the Sale gets when one is appended
ConfirmPaymentAt(payment_id) ==
    LET r == ConfirmResult(db, payment_id)
    IN  /\ db' = r.db
        /\ resp' = r.resp
        /\ sale_ids' = IF Len(r.db.sales) > Len(db.sales)
                       THEN Append(sale_ids, SaleId(clock))
                       ELSE sale_ids
        /\ UNCHANGED <<detvars, carts, uuids, th, acked, clock, created_at, task, ledger,
                       cleaned>>

InitSale ==
    /\ ServiceIdle
    /\ DetectionIdle
    /\ TimeIdle

NextSale ==
    \/ \E s \in {"", "s1"} : AddToCart(PidA, s, 1)
    \/ \E s \in {"", "s1"} : CheckoutCartUpTo(s, MaxGapPayments)
    \/ \E p \in 1..MaxGapPayments : ConfirmPaymentAt(p)
    \/ TickClock(MaxSaleTicks)

SpecSale == InitSale /\ [][NextSale]_vars

\* C37: no two Sales of the store have the same id, whenever their payments are
\* confirmed.
C37_SaleIdsDistinct ==
    \A i, j \in 1..Len(sale_ids) : i # j => sale_ids[i] # sale_ids[j]

\* ------------------------------------- the same adds on the ledger and the preview
\* one add of a catalog product, sent to add_to_cart and given to ShoppingCart.add_product
AddToBothCarts(i, quantity) ==
    LET product == db.products[i]
        r == AddToCartResult(db, carts, product.id, "", quantity)
        items == AddProduct(preview, product, quantity)
    IN  /\ Len(Items(r.carts, "")) <= MaxTwinLines
        /\ carts' = r.carts
        /\ resp' = r.resp
        /\ preview' = items
        /\ outcome' = [NoOutcome EXCEPT !.op = "add_product", !.ok = (items # preview)]
        /\ UNCHANGED <<timevars, db, uuids, th, acked, now, debounce_last, debounce_calls,
                       debounce_log, raw, last_detections, detected_products,
                       current_detections>>

InitTwin ==
    /\ ServiceIdle
    /\ DetectionIdle
    /\ TimeIdle

NextTwin == \E i \in 1..Len(InitProducts), quantity \in {1, 2} : AddToBothCarts(i, quantity)

SpecTwin == InitTwin /\ [][NextTwin]_vars

\* the units of a product the ledger's default cart holds, and the preview cart
LedgerQuantity(product_id) ==
    Len(SelectSeq(Items(carts, ""), LAMBDA line : line.product_id = product_id))

PreviewQuantity(product_id) ==
    IF product_id \in DOMAIN preview THEN preview[product_id] ELSE 0

TicksPerHour == TicksPerSecond * 3600

Day == 24 * TicksPerHour

\* the clock moves on, whatever the event loop does
Sleep ==
    /\ clock < MaxLoopDays * Day
    /\ clock' = clock + Day
    /\ UNCHANGED <<srvvars, detvars, sale_ids, created_at, task, ledger, cleaned>>

\* handlers that run each step on a thread of its own
EventLoopFreeThreaded(h) == TRUE

\* coroutine h may run: no other handler is between its start and its await, or
\* between its await and its return
EventLoopFree(h) == \A g \in Handlers \ {h} : task[g].pc \in {"idle", "broadcast"}

\* cleanup run by a timer thread
CleanupTaskOnThread == TRUE

\* cleanup_task is a coroutine of the same loop: it runs when no handler does
CleanupTaskReady == \A g \in Handlers : task[g].pc \in {"idle", "broadcast"}

\* "created_at": datetime.now().isoformat() for the carts get_cart has just created
Stamp(created, cs, current_time) ==
    [k \in DOMAIN cs |-> IF k \in DOMAIN created THEN created[k] ELSE current_time]

\* cutoff = datetime.now() - timedelta(hours=max_age_hours)
Cutoff(current_time) == current_time - MaxAgeHours * TicksPerHour

\* the sessions cleanup deletes when it looks at the age only
ExpiredWhateverItHolds(cs, created, current_time) ==
    {k \in DOMAIN cs : k \in DOMAIN created /\ created[k] < Cutoff(current_time)}

\* the sessions cleanup_old_carts deletes
Expired(cs, created, current_time) ==
    {k \in DOMAIN cs : /\ k \in DOMAIN created
                       /\ created[k] < Cutoff(current_time)
                       /\ Len(cs[k]) = 0}

Without(f, gone) == [k \in DOMAIN f \ gone |-> f[k]]

\* cart_manager.cleanup_old_carts(); a handler that holds a deleted cart holds a dict
\* that self.carts no longer has
CleanupOldCarts ==
    /\ CleanupTaskReady
    /\ LET gone == Expired(carts, created_at, clock)
       IN  /\ carts' = Without(carts, gone)
           /\ created_at' = Without(created_at, gone)
           /\ cleaned' = [sessions |-> gone,
                          awaiting |-> {h \in Handlers : task[h].pc = "broadcast"}]
           /\ task' = [h \in Handlers |->
                         IF task[h].pc = "append" /\ SessionKey(task[h].session_id) \in gone
                         THEN [task[h] EXCEPT !.live = FALSE]
                         ELSE task[h]]
    /\ UNCHANGED <<detvars, db, uuids, resp, th, acked, clock, sale_ids, ledger>>

\* add_to_cart up to its loop: the product lookup and the stock check
StartAddToCart(h, product_id, session_id, quantity) ==
    /\ task[h].pc = "idle"
    /\ EventLoopFree(h)
    /\ Len(Items(carts, session_id)) + quantity <= MaxLines
    /\ ledger.added + quantity <= MaxLoopAdds
    /\ LET i == GetProductFlexible(db, product_id)
       IN  IF i = 0 \/ db.products[i].stock < quantity
           THEN /\ resp' = AddToCartResult(db, carts, product_id, session_id, quantity).resp
                /\ UNCHANGED task
           ELSE /\ task' = [task EXCEPT ![h] =
                              [NoTask EXCEPT !.pc = "add_item", !.op = "add_to_cart",
                                             !.session_id = session_id, !.product = i,
                                             !.quantity = quantity, !.remaining = quantity]]
                /\ UNCHANGED resp
    /\ UNCHANGED <<detvars, db, carts, uuids, th, acked, clock, sale_ids, created_at,
                   ledger, cleaned>>

\* add_item: cart = self.get_cart(session_id)
AddItemLookup(h) ==
    /\ task[h].pc = "add_item"
    /\ task[h].remaining > 0
    /\ EventLoopFree(h)
    /\ carts' = GetCart(carts, task[h].session_id)
    /\ created_at' = Stamp(created_at, carts', clock)
    /\ task' = [task EXCEPT ![h].pc = "append", ![h].live = TRUE]
    /\ UNCHANGED <<detvars, db, uuids, resp, th, acked, clock, sale_ids, ledger, cleaned>>

\* add_item: cart["items"].append(item), on the dict the lookup returned
AddItemAppend(h) ==
    /\ task[h].pc = "append"
    /\ EventLoopFree(h)
    /\ carts' = IF task[h].live
                THEN AddItem(carts, db.products[task[h].product], task[h].session_id)
                ELSE carts
    /\ ledger' = [ledger EXCEPT !.added = @ + 1]
    /\ task' = [task EXCEPT ![h].pc = "add_item", ![h].remaining = @ - 1]
    /\ UNCHANGED <<detvars, db, uuids, resp, th, acked, clock, sale_ids, created_at,
                   cleaned>>

\* add_to_cart after its loop: get_summary, then await manager.broadcast
SummariseAdd(h) ==
    /\ task[h].pc = "add_item"
    /\ task[h].remaining <= 0
    /\ EventLoopFree(h)
    /\ carts' = GetCart(carts, task[h].session_id)
    /\ created_at' = Stamp(created_at, carts', clock)
    /\ task' = [task EXCEPT ![h].pc = "broadcast",
                            ![h].summary = GetSummary(carts, task[h].session_id)]
    /\ UNCHANGED <<detvars, db, uuids, resp, th, acked, clock, sale_ids, ledger, cleaned>>

\* checkout_cart up to the payment: get_summary and the empty-cart check
StartCheckout(h, session_id) ==
    /\ task[h].pc = "idle"
    /\ EventLoopFree(h)
    /\ uuids + Cardinality({g \in Handlers : task[g].pc = "checkout"}) < MaxLoopPayments
    /\ carts' = GetCart(carts, session_id)
    /\ created_at' = Stamp(created_at, carts', clock)
    /\ LET summary == GetSummary(carts, session_id)
       IN  IF summary.total_items = 0
           THEN /\ resp' = Response("checkout", 400, "cart is empty")
                /\ UNCHANGED task
           ELSE /\ task' = [task EXCEPT ![h] =
                              [NoTask EXCEPT !.pc = "checkout", !.op = "checkout",
                                             !.session_id = session_id,
                                             !.summary = summary]]
                /\ UNCHANGED resp
    /\ UNCHANGED <<detvars, db, uuids, th, acked, clock, sale_ids, ledger, cleaned>>

\* checkout_cart: db.add_pending_payment, cart_manager.clear_cart, then the await
StoreCheckout(h) ==
    /\ task[h].pc = "checkout"
    /\ EventLoopFree(h)
    /\ db' = AddPendingPayment(db, uuids + 1,
                 MakePayment(uuids + 1, task[h].summary, TaxRate(db), task[h].session_id))
    /\ uuids' = uuids + 1
    /\ carts' = ClearCartItems(carts, task[h].session_id)
    /\ created_at' = Stamp(created_at, carts', clock)
    /\ task' = [task EXCEPT ![h].pc = "broadcast"]
    /\ UNCHANGED <<detvars, resp, th, acked, clock, sale_ids, ledger, cleaned>>

\* a handler after its await of manager.broadcast: the response
ReturnResponse(h) ==
    /\ task[h].pc = "broadcast"
    /\ EventLoopFree(h)
    /\ resp' = IF task[h].op = "add_to_cart"
               THEN [Response("add_to_cart", 200, "") EXCEPT
                        !.items_added = task[h].quantity]
               ELSE Response("checkout", 200, "")
    /\ task' = [task EXCEPT ![h] = NoTask]
    /\ UNCHANGED <<detvars, db, carts, uuids, th, acked, clock, sale_ids, created_at,
                   ledger, cleaned>>

\* GET /api/cart: get_summary creates the session's cart on first access
GetCartOnLoop(session_id) ==
    /\ EventLoopFree("get_cart")
    /\ carts' = GetCart(carts, session_id)
    /\ created_at' = Stamp(created_at, carts', clock)
    /\ resp' = Response("get_cart", 200, "")
    /\ UNCHANGED <<detvars, db, uuids, th, acked, clock, sale_ids, task, ledger, cleaned>>

\* DELETE /api/cart/{product_id} up to its await
RemoveOnLoop(product_id, session_id) ==
    /\ EventLoopFree("remove_from_cart")
    /\ LET r == RemoveItem(carts, product_id, session_id)
       IN  /\ carts' = r.carts
           /\ created_at' = Stamp(created_at, carts', clock)
           /\ ledger' = IF r.ok THEN [ledger EXCEPT !.removed = @ + 1] ELSE ledger
           /\ resp' = IF r.ok THEN Response("remove", 200, "")
                      ELSE Response("remove", 404, "not in cart")
    /\ UNCHANGED <<detvars, db, uuids, th, acked, clock, sale_ids, task, cleaned>>

\* DELETE /api/cart up to its await
ClearOnLoop(session_id) ==
    /\ EventLoopFree("clear_cart")
    /\ carts' = ClearCartItems(carts, session_id)
    /\ created_at' = Stamp(created_at, carts', clock)
    /\ ledger' = [ledger EXCEPT !.removed = @ + Len(Items(carts, session_id))]
    /\ resp' = Response("clear_cart", 200, "")
    /\ UNCHANGED <<detvars, db, uuids, th, acked, clock, sale_ids, task, cleaned>>

InitLoop ==
    /\ ServiceIdle
    /\ DetectionIdle
    /\ TimeIdle

NextLoop ==
    \/ Sleep
    \/ CleanupOldCarts
    \/ \E h \in Handlers, s \in {"", "s1"}, n \in {1, 2} : StartAddToCart(h, PidA, s, n)
    \/ \E h \in Handlers : AddItemLookup(h)
    \/ \E h \in Handlers : AddItemAppend(h)
    \/ \E h \in Handlers : SummariseAdd(h)
    \/ \E h \in Handlers, s \in {"", "s1"} : StartCheckout(h, s)
    \/ \E h \in Handlers : StoreCheckout(h)
    \/ \E h \in Handlers : ReturnResponse(h)
    \/ \E s \in {"", "s1"} : GetCartOnLoop(s)
    \/ \E s \in {"", "s1"} : RemoveOnLoop(PidA, s)
    \/ \E s \in {"", "s1"} : ClearOnLoop(s)

SpecLoop == InitLoop /\ [][NextLoop]_vars

\* ------------------------------------------------------- concurrent is_new calls
\* two calls of one label whose times are less than the cooldown apart
SameWindow(c1, c2) ==
    /\ c1.class_name = c2.class_name
    /\ c1.current_time - c2.current_time < DebounceTime
    /\ c2.current_time - c1.current_time < DebounceTime

SoldPayments(data) == {data.sales[i].payment_id : i \in 1..Len(data.sales)}

CompletedPayments(data) ==
    {p \in DOMAIN data.pending_payments : data.pending_payments[p].status = "completed"}

\* C36: in every state of the persisted store, whatever the interleaving of the store's
\* calls, the payment ids that have a Sale are the payments whose status is completed:
\* one confirmation's status change, stock decrements and Sale reach the store in a
\* single write.
C36_SalesAreTheCompletedPayments ==
    /\ SoldPayments(db) = CompletedPayments(db)
    /\ \A t \in Threads :
          th[t].pc = "read" => SoldPayments(th[t].data) = CompletedPayments(th[t].data)

\* a confirmation has been written while another call still holds the store as it was
\* read before it
C36_Witness ==
    /\ CompletedPayments(db) # {}
    /\ \E t \in Threads :
          /\ th[t].pc = "read"
          /\ CompletedPayments(th[t].data) = {}

\* ------------------------------------------------ the suppressed list as a whole
\* out takes its detections from distinct places of the list it was made from
IsSubList(out, dets) ==
    \E f \in [1..Len(out) -> 1..Len(dets)] :
        /\ \A a, b \in 1..Len(out) : a # b => f[a] # f[b]
        /\ \A a \in 1..Len(out) : out[a] = dets[f[a]]

\* C39: what the overlap suppression returns is made of detections of its input, is
\* sorted by confidence from the highest down, holds no two detections of one label
\* whose IoU is above the threshold, and every detection it dropped overlaps (IoU above
\* the threshold) a returned detection of its label whose confidence is at least as high.
C39_SuppressedList ==
    Detected =>
        /\ IsSubList(last_detections, Collected)
        /\ \A a, b \in 1..Len(last_detections) :
              a < b => last_detections[a].confidence >= last_detections[b].confidence
        /\ \A a, b \in 1..Len(last_detections) :
              a # b => ~(/\ last_detections[a].class_name = last_detections[b].class_name
                         /\ IouAbove(last_detections[a].bbox, last_detections[b].bbox))
        /\ \A j \in 1..Len(Collected) :
              ~Kept(j) =>
                  \E a \in 1..Len(last_detections) :
                      /\ last_detections[a].class_name = Collected[j].class_name
                      /\ IouAbove(last_detections[a].bbox, Collected[j].bbox)
                      /\ last_detections[a].confidence >= Collected[j].confidence

\* a frame whose detections came in with the lower confidence first: two of them were
\* returned, the higher one first, and a third one was dropped
C39_Witness ==
    /\ Detected
    /\ Len(last_detections) >= 2
    /\ Len(last_detections) < Len(Collected)
    /\ last_detections[1].confidence > last_detections[2].confidence
    /\ \E i, j \in 1..Len(Collected) :
          /\ i < j
          /\ Collected[i] = last_detections[2]
          /\ Collected[j] = last_detections[1]

\* ----------------------------------------------------------- stale-session cleanup
\* C34: a step removes a session only when the session holds no line and was created
\* more than the retention horizon (24 h) before; a session that holds a line, or is
\* not older than the horizon, stays.
C34_CleanupRemovesOnlyStaleEmpty ==
    [][\A k \in DOMAIN carts :
          k \notin DOMAIN carts' =>
              /\ Len(carts[k]) = 0
              /\ clock - created_at[k] > MaxAgeHours * TicksPerHour]_vars

\* cleanup deleted a session and left one of the same age that holds a line
C34_Witness ==
    /\ cleaned.sessions # {}
    /\ \E k \in DOMAIN carts :
          /\ created_at[k] < Cutoff(clock)
          /\ Len(carts[k]) > 0

\* the lines of the product of add h in the summary the add returns
SummaryQuantity(h) ==
    LET items == task[h].summary.items
        hits == {n \in 1..Len(items) : items[n].product_id = db.products[task[h].product].id}
    IN  IF hits = {} THEN 0 ELSE items[CHOOSE n \in hits : TRUE].quantity

\* C35: cleanup never deletes a session between an add's session lookup and its
\* append: the cart an add appends to is the session's cart, and the summary the add
\* returns holds every line it reports as added.
C35_CleanupLeavesAddsAlone ==
    \A h \in Handlers :
        /\ task[h].pc = "append" =>
              /\ task[h].live
              /\ SessionKey(task[h].session_id) \in DOMAIN carts
        /\ (task[h].pc = "broadcast" /\ task[h].op = "add_to_cart") =>
              SummaryQuantity(h) >= task[h].quantity

\* cleanup ran while an add was at its await: it deleted another session and left the
\* add's session, as old as the deleted one, with the lines the add appended
C35_Witness ==
    \E h \in cleaned.awaiting :
        /\ task[h].pc = "broadcast"
        /\ task[h].op = "add_to_cart"
        /\ cleaned.sessions # {}
        /\ SessionKey(task[h].session_id) \in DOMAIN carts
        /\ created_at[SessionKey(task[h].session_id)] < Cutoff(clock)
        /\ Len(carts[SessionKey(task[h].session_id)]) >= task[h].quantity

\* ------------------------------------------------------------ checkout against adds
RECURSIVE SumQuantities(_)
SumQuantities(items) ==
    IF items = <<>> THEN 0 ELSE Head(items).quantity + SumQuantities(Tail(items))

RECURSIVE SumPayments(_, _)
SumPayments(payments, ids) ==
    IF ids = {} THEN 0
    ELSE LET p == CHOOSE q \in ids : TRUE
         IN  SumQuantities(payments[p].items) + SumPayments(payments, ids \ {p})

RECURSIVE SumLines(_, _)
SumLines(cs, keys) ==
    IF keys = {} THEN 0
    ELSE LET k == CHOOSE q \in keys : TRUE
         IN  Len(cs[k]) + SumLines(cs, keys \ {k})

\* C40: every line a successful add appended is in exactly one place: a live cart, the
\* quantities of one pending payment, or taken out by a remove or clear call; a
\* checkout that runs while adds run on its session loses no line and counts none twice.
C40_LinesConserved ==
    ledger.added = SumLines(carts, DOMAIN carts)
                   + SumPayments(db.pending_payments, DOMAIN db.pending_payments)
                   + ledger.removed

\* a checkout and an add on the same session are both at their await: the payment
\* holds the line added before, the cart the line added after
C40_Witness ==
    \E h1, h2 \in Handlers :
        /\ task[h1].pc = "broadcast" /\ task[h1].op = "checkout"
        /\ task[h2].pc = "broadcast" /\ task[h2].op = "add_to_cart"
        /\ SessionKey(task[h1].session_id) = SessionKey(task[h2].session_id)
        /\ Len(Items(carts, task[h1].session_id)) = 1
        /\ SumPayments(db.pending_payments, DOMAIN db.pending_payments) = 1

====
